---- MODULE Spec2Model ----
(***************************************************************************)
(* Model of the dev-server manager of apps/api (services/dev_server.py):   *)
(* DevServerManager with its servers and port_allocations dictionaries,    *)
(* the DevServerInfo objects it creates, the child processes it spawns,    *)
(* and the coroutines start_server and stop_server.  The event loop is     *)
(* single-threaded and cooperative: a coroutine runs without interruption  *)
(* from one await that really suspends to the next, so every action below  *)
(* is one such segment.  Awaiting a coroutine (start_server awaiting       *)
(* stop_server) does not suspend by itself: the callee's first segment     *)
(* belongs to the caller's segment.                                        *)
(***************************************************************************)
EXTENDS Integers, Sequences, FiniteSets, TLC

\* ------------------------------------------------------------------ bounds
MaxCalls == 3           \* calls of the manager's methods in one behaviour
max_attempts == 2       \* ports scanned by _find_available_port (100 in the code)
MAX_BUFFER_SIZE == 2    \* entries kept in a log buffer (200 in the code)
MaxMsgs == 3            \* broadcast_to_project calls in one behaviour
MaxInbound == 2         \* messages a client sends on one socket
MaxLines == 3           \* lines one read loop reads

\* ------------------------------------------------------- program constants
base_port == 3001
StopPolls == 10

None == 0
Owners == 1..2
AllocOwners == 1..(max_attempts + 1)
Tasks == 1..MaxCalls
ScanRange == base_port..(base_port + max_attempts - 1)
PortArgs == ScanRange \cup {None}
ExtraPort == base_port + max_attempts      \* a port argument the scan never reaches (4001 with base 3001)
STOPPED == "stopped"
STARTING == "starting"
RUNNING == "running"
STOPPING == "stopping"
ERROR == "error"
ServerStatus == {STOPPED, STARTING, RUNNING, STOPPING, ERROR}

VARIABLES
    servers,            \* DevServerManager.servers: project_id -> DevServerInfo (a reference into infos)
    port_allocations,   \* DevServerManager.port_allocations: port -> project_id
    infos,              \* the DevServerInfo objects created so far, by reference
    procs,              \* the child processes created so far, by pid
    tasks,              \* the coroutines: position, arguments and local variables
    ncalls,             \* calls of the manager's methods made so far
    result,             \* what the step just taken returned or raised to a caller, if it ended a call
    granted,            \* allocator scenario: the allocate_port calls made and what each returned
    swept,              \* shutdown scenario: the stop_all_servers call made and how far it got
    log_buffers,        \* main.log_buffers: project_id -> list of messages (a reference into lists)
    active_websockets,  \* main.active_websockets: project_id -> set of sockets (a reference into sets)
    lists,              \* the list objects created so far, by reference
    sets,               \* the set objects created so far, by reference
    inbox,              \* per socket, the messages send_json has accepted, in order
    broken,             \* the sockets whose client has gone: send_json and receive_text raise
    conns,              \* the dev_server_websocket coroutines: position and locals, per socket
    emit,               \* the coroutines that call broadcast_to_project: position and locals
    appended,           \* per project, the Output events buffered since the buffer was last deleted
    nmsg,               \* broadcast_to_project calls made so far
    delivered,          \* the broadcast_to_project calls that ended in the step just taken
    requests,           \* the start_dev_server coroutines: position and response, per task
    stream_tasks        \* the processes create_task(stream_process_to_websockets(...)) was called for, in order

pump == <<log_buffers, active_websockets, lists, sets, inbox, broken, conns, emit,
          appended, nmsg, delivered, requests, stream_tasks>>

vars == <<servers, port_allocations, infos, procs, tasks, ncalls, result, granted,
          swept, pump>>

\* ------------------------------------------------------------ dictionaries
Del(f, k) == [x \in DOMAIN f \ {k} |-> f[x]]
Put(f, k, v) == [x \in DOMAIN f \cup {k} |-> IF x = k THEN v ELSE f[x]]

\* The manager's state as one value, for the operators that model its methods.
Mgr == [servers |-> servers, port_allocations |-> port_allocations,
        infos |-> infos, procs |-> procs]

SetMgr(m) ==
    /\ servers' = m.servers
    /\ port_allocations' = m.port_allocations
    /\ infos' = m.infos
    /\ procs' = m.procs

\* DevServerInfo(project_id, port, status): process, pid and error_message unset.
DevServerInfo(project_id, port, status) ==
    [project_id |-> project_id, port |-> port, status |-> status,
     process |-> None, pid |-> None, error_message |-> FALSE]

\* ---------------------------------------------------------- port allocator
ScanPortsIgnoresLeases(pa, avail, port, attempts) ==
    IF attempts = 0 THEN None
    ELSE IF port \in avail THEN port
    ELSE None

\* _find_available_port: the first of max_attempts ports from base_port that is
\* neither leased nor reported busy by the probe; avail is what the probe
\* (_is_port_available) would answer for each port.
RECURSIVE ScanPorts(_, _, _, _)
ScanPorts(pa, avail, port, attempts) ==
    IF attempts = 0 THEN None
    ELSE IF port \notin DOMAIN pa /\ port \in avail THEN port
    ELSE ScanPorts(pa, avail, port + 1, attempts - 1)

find_available_port(m, avail) ==
    ScanPorts(m.port_allocations, avail, base_port, max_attempts)

\* allocate_port: the manager after the call and the port returned.
allocate_port(m, project_id, avail) ==
    IF project_id \in DOMAIN m.servers
    THEN LET existing_port == m.infos[m.servers[project_id]].port IN
         [m |-> IF existing_port \notin DOMAIN m.port_allocations
                THEN [m EXCEPT !.port_allocations = Put(@, existing_port, project_id)]
                ELSE m,
          ret |-> existing_port]
    ELSE LET port == find_available_port(m, avail) IN
         [m |-> IF port # None
                THEN [m EXCEPT !.port_allocations = Put(@, port, project_id)]
                ELSE m,
          ret |-> port]

ReleasePortDropsAllLeases(m, port) ==
    IF port \in DOMAIN m.port_allocations
    THEN [m EXCEPT !.port_allocations = << >>]
    ELSE m

release_port(m, port) ==
    IF port \in DOMAIN m.port_allocations
    THEN [m EXCEPT !.port_allocations = Del(@, port)]
    ELSE m

\* ---------------------------------------------------------------- getters
\* What a getter leaves and returns: the manager and the value ("True" /
\* "False" for a bool, a status, or "info" with the record in info, None
\* when there is none).
Got(m, ret, info) == [m |-> m, ret |-> ret, info |-> info]

\* Lines 241-243.
get_server_info(m, project_id) ==
    Got(m, "info", IF project_id \in DOMAIN m.servers THEN m.servers[project_id] ELSE None)

\* A getter that takes the record out of servers.
GetServerStatusPopsRecord(m, project_id) ==
    IF project_id \notin DOMAIN m.servers THEN Got(m, STOPPED, None)
    ELSE Got([m EXCEPT !.servers = Del(@, project_id)],
             m.infos[m.servers[project_id]].status, None)

\* Lines 245-249.
get_server_status(m, project_id) ==
    IF project_id \notin DOMAIN m.servers THEN Got(m, STOPPED, None)
    ELSE Got(m, m.infos[m.servers[project_id]].status, None)

\* Lines 257-262.
is_running(m, project_id) ==
    Got(m, IF /\ project_id \in DOMAIN m.servers
              /\ m.infos[m.servers[project_id]].status = RUNNING
           THEN "True" ELSE "False", None)

Getters == {"get_server_info", "get_server_status", "is_running"}

\* ------------------------------------------------------------------ tasks
\* pc: "done" (not running), "spawn" (start_server in create_subprocess_exec),
\* "wait_term" (stop_server in wait_for(process.wait(), 5.0)), "wait_kill"
\* (stop_server in process.wait() after kill), "poll" (stop_server in sleep(0.5)).
\* A start_server task whose pc is one of the last three is inside the
\* stop_server it awaits at its line 121.
\* A stop_all_servers task is inside the stop_server it awaits at its line
\* 255, for the owner project_id; project_ids is the rest of its list.
IdleTask ==
    [op |-> "idle", pc |-> "done", id |-> 0, project_id |-> 0, port |-> None,
     info |-> 0, port_to_release |-> None, polls |-> 0, project_ids |-> << >>]

\* No call ended in the step just taken.
NoResult ==
    [op |-> "idle", project_id |-> 0, ret |-> "none", info |-> 0, port |-> None,
     sync |-> FALSE]

\* Where a segment of a coroutine ends: the manager, the next position, the
\* locals and, when the coroutine returned or raised, its result
\* ("True"/"False" for stop_server, "info" for the DevServerInfo in info,
\* "raise" for an exception).  A stop_server that returns after it read the
\* record, and a start_server whose spawn raised, report the record in info
\* and its port in port, for the properties to refer to.
Step(m, pc, ret, info, port, ptr, polls) ==
    [m |-> m, pc |-> pc, ret |-> ret, info |-> info, port |-> port,
     port_to_release |-> ptr, polls |-> polls]

Return(m, ret) == Step(m, "done", ret, 0, None, None, 0)

\* ------------------------------------------------------------- processes
\* What terminate() / kill() can do: deliver the signal ("ok"), find the
\* process gone ("lookup", ProcessLookupError) or fail otherwise ("error", any
\* other exception of the system call).
SignalOutcomes(m, p) ==
    IF m.procs[p].alive THEN {"ok", "error"} ELSE {"ok", "lookup"}

\* terminate() is the first signal a stop_server call sends, kill() its second:
\* stops counts the stop_server calls that have signalled the process.
terminate(m, p) == [m EXCEPT !.procs[p].stops = @ + 1]

kill(m, p) == [m EXCEPT !.procs[p].killed = TRUE]

\* ------------------------------------------------------------ stop_server
StopExceptRaises(m, project_id, info, port_to_release) ==
    Step(m, "done", "raise", info, port_to_release, None, 0)

StopCleanupKeepsLease(m, project_id, info, port_to_release) ==
    LET m2 == [m EXCEPT !.servers = Del(@, project_id)]
    IN  Step([m2 EXCEPT !.infos[info].status = STOPPED], "done", "True", info,
             port_to_release, None, 0)

\* Lines 220-231: release the port, delete the record, mark it stopped.
StopCleanup(m, project_id, info, port_to_release) ==
    LET m1 == release_port(m, port_to_release)
        m2 == [m1 EXCEPT !.servers = Del(@, project_id)]
    IN  Step([m2 EXCEPT !.infos[info].status = STOPPED], "done", "True", info,
             port_to_release, None, 0)

\* Lines 233-239: the handler of any exception other than ProcessLookupError.
StopExcept(m, project_id, info, port_to_release) ==
    Step(IF project_id \in DOMAIN m.servers
         THEN [m EXCEPT !.infos[m.servers[project_id]].status = ERROR,
                        !.infos[m.servers[project_id]].error_message = TRUE]
         ELSE m,
         "done", "False", info, port_to_release, None, 0)

\* The outcomes terminate() can have in a stop_server entered now.
TermOutcomes(m, project_id) ==
    IF /\ project_id \in DOMAIN m.servers
       /\ m.infos[m.servers[project_id]].status \notin {STOPPED, STOPPING}
       /\ m.infos[m.servers[project_id]].process # None
    THEN SignalOutcomes(m, m.infos[m.servers[project_id]].process)
    ELSE {"ok"}

StopEntryDropsLeases(m, project_id, id, sig) ==
    IF project_id \notin DOMAIN m.servers
    THEN Return([m EXCEPT !.port_allocations =
                    [p \in {q \in DOMAIN @ : @[q] # project_id} |-> @[p]]], "True")
    ELSE Step(m, "poll", "none", 0, None, None, 0)

\* A stop_server without the handler of lines 216-218.
StopEntryLookupIsAnError(m, project_id, id, sig) ==
    IF project_id \notin DOMAIN m.servers THEN Return(m, "True")
    ELSE LET info == m.servers[project_id]
             server_info == m.infos[info]
             m1 == [m EXCEPT !.infos[info].status = STOPPING]
             port_to_release == server_info.port
         IN  IF server_info.status = STOPPED THEN Return(m, "True")
             ELSE IF server_info.status = STOPPING
                  THEN Step(m, "poll", "none", 0, None, None, 0)
             ELSE IF server_info.process = None
                  THEN StopCleanup(m1, project_id, info, port_to_release)
             ELSE IF sig = "ok"
                  THEN Step(terminate(m1, server_info.process), "wait_term",
                            "none", info, None, port_to_release, 0)
             ELSE StopExcept(m1, project_id, info, port_to_release)

\* Lines 177-210: from the call to the first await or the return.
StopEntry(m, project_id, id, sig) ==
    IF project_id \notin DOMAIN m.servers THEN Return(m, "True")
    ELSE LET info == m.servers[project_id]
             server_info == m.infos[info]
             m1 == [m EXCEPT !.infos[info].status = STOPPING]
             port_to_release == server_info.port
         IN  IF server_info.status = STOPPED THEN Return(m, "True")
             ELSE IF server_info.status = STOPPING
                  THEN Step(m, "poll", "none", 0, None, None, 0)
             ELSE IF server_info.process = None
                  THEN StopCleanup(m1, project_id, info, port_to_release)
             ELSE IF sig = "ok"
                  THEN Step(terminate(m1, server_info.process), "wait_term",
                            "none", info, None, port_to_release, 0)
             ELSE IF sig = "lookup"
                  THEN StopCleanup(m1, project_id, info, port_to_release)
             ELSE StopExcept(m1, project_id, info, port_to_release)

\* A stop_server that does not wait for the exit after the kill.
StopTimeoutCleansUpAtOnce(m, project_id, id, info, port_to_release, sig) ==
    IF sig = "ok"
    THEN StopCleanup(kill(m, m.infos[info].process), project_id, info, port_to_release)
    ELSE IF sig = "lookup"
    THEN StopCleanup(m, project_id, info, port_to_release)
    ELSE StopExcept(m, project_id, info, port_to_release)

\* Lines 211-215: wait_for timed out; kill, then wait for the exit.
StopTimeout(m, project_id, id, info, port_to_release, sig) ==
    IF sig = "ok"
    THEN Step(kill(m, m.infos[info].process), "wait_kill", "none", info,
              None, port_to_release, 0)
    ELSE IF sig = "lookup"
    THEN StopCleanup(m, project_id, info, port_to_release)
    ELSE StopExcept(m, project_id, info, port_to_release)

StopPollNeverGivesUp(m, project_id, polls) ==
    IF \/ project_id \notin DOMAIN m.servers
       \/ m.infos[m.servers[project_id]].status = STOPPED
    THEN Return(m, "True")
    ELSE Step(m, "poll", "none", 0, None, None, polls)

\* Lines 187-196: one sleep(0.5) of the wait for another stop has elapsed.
StopPoll(m, project_id, polls) ==
    IF \/ project_id \notin DOMAIN m.servers
       \/ m.infos[m.servers[project_id]].status = STOPPED
    THEN Return(m, "True")
    ELSE IF polls + 1 < StopPolls
    THEN Step(m, "poll", "none", 0, None, None, polls + 1)
    ELSE LET port == m.infos[m.servers[project_id]].port IN
         Step(release_port([m EXCEPT !.servers = Del(@, project_id)], port),
              "done", "True", m.servers[project_id], port, None, 0)

\* ----------------------------------------------------------- start_server
\* Lines 135-153: create the record in STARTING, then await the spawn.
StartCreate(m, project_id, port) ==
    LET info == Len(m.infos) + 1 IN
    Step([m EXCEPT !.infos = Append(@, DevServerInfo(project_id, port, STARTING)),
                   !.servers = Put(@, project_id, info)],
         "spawn", "none", info, port, None, 0)

StartResolveKeepsRecordOnExhaustion(m, project_id, port, avail) ==
    IF port = None
    THEN LET a == allocate_port(m, project_id, avail) IN
         IF a.ret = None
         THEN Return([StartCreate(a.m, project_id, base_port).m
                        EXCEPT !.port_allocations = Put(@, base_port, project_id)],
                     "raise")
         ELSE StartCreate(a.m, project_id, a.ret)
    ELSE StartCreate(m, project_id, port)

\* Lines 123-133: the port given, or a port allocated now.  The RuntimeError
\* of line 133 is reported with the port that was asked for, the one of line
\* 127 with no port.
StartResolve(m, project_id, port, avail) ==
    IF port = None
    THEN LET a == allocate_port(m, project_id, avail) IN
         IF a.ret = None THEN Return(a.m, "raise")
         ELSE StartCreate(a.m, project_id, a.ret)
    ELSE IF port \notin DOMAIN m.port_allocations
    THEN StartCreate([m EXCEPT !.port_allocations = Put(@, port, project_id)],
                     project_id, port)
    ELSE IF m.port_allocations[port] # project_id
    THEN Step(m, "done", "raise", 0, port, None, 0)
    ELSE StartCreate(m, project_id, port)

StartEntryRestartsRunning(m, project_id, port, avail, id, sig) ==
    IF project_id \in DOMAIN m.servers
    THEN LET info == m.servers[project_id] IN
         IF m.infos[info].status = STARTING
         THEN Step(m, "done", "info", info, None, None, 0)
         ELSE LET r == StopEntry(m, project_id, id, sig) IN
              IF r.pc = "done" THEN StartResolve(r.m, project_id, port, avail)
              ELSE [r EXCEPT !.port = port]
    ELSE StartResolve(m, project_id, port, avail)

StartEntryRespawnsStarting(m, project_id, port, avail, id, sig) ==
    IF project_id \in DOMAIN m.servers /\ m.infos[m.servers[project_id]].status = RUNNING
    THEN Step(m, "done", "info", m.servers[project_id], None, None, 0)
    ELSE StartResolve(m, project_id, port, avail)

\* Lines 110-121: from the call to the first await or the return.
StartEntry(m, project_id, port, avail, id, sig) ==
    IF project_id \in DOMAIN m.servers
    THEN LET info == m.servers[project_id] IN
         IF m.infos[info].status \in {RUNNING, STARTING}
         THEN Step(m, "done", "info", info, None, None, 0)
         ELSE LET r == StopEntry(m, project_id, id, sig) IN
              IF r.pc = "done" THEN StartResolve(r.m, project_id, port, avail)
              ELSE [r EXCEPT !.port = port]
    ELSE StartResolve(m, project_id, port, avail)

\* A start_server that marks the record Running without storing the handle.
StartSpawnedDropsHandle(m, info, project_id) ==
    Step([m EXCEPT !.procs = Append(@, [owner |-> project_id, alive |-> TRUE,
                                        killed |-> FALSE, stops |-> 0]),
                   !.infos[info].status = RUNNING],
         "done", "info", info, None, None, 0)

\* Lines 161-166: create_subprocess_exec returned the process.
StartSpawned(m, info, project_id) ==
    LET p == Len(m.procs) + 1 IN
    Step([m EXCEPT !.procs = Append(@, [owner |-> project_id, alive |-> TRUE,
                                        killed |-> FALSE, stops |-> 0]),
                   !.infos[info].process = p,
                   !.infos[info].pid = p,
                   !.infos[info].status = RUNNING],
         "done", "info", info, None, None, 0)

\* Lines 168-173: create_subprocess_exec raised.
StartFailed(m, info, port) ==
    Step(release_port([m EXCEPT !.infos[info].status = ERROR,
                                !.infos[info].error_message = TRUE], port),
         "done", "raise", info, port, None, 0)

\* ------------------------------------------------------- stop_all_servers
\* The end r of a segment of stop_all_servers: r with the owner whose
\* stop_server it is in, the rest of the list, and whether a stop_server it
\* awaited in this segment returned False.
SweepStep(r, project_id, project_ids, failed) ==
    [m |-> r.m, pc |-> r.pc, ret |-> r.ret, info |-> r.info, port |-> r.port,
     port_to_release |-> r.port_to_release, polls |-> r.polls,
     project_id |-> project_id, project_ids |-> project_ids, failed |-> failed]

\* The outcome of terminate() in stop_server(project_id): the one the
\* environment picked in sigs when the process can answer so.
SigFor(m, project_id, sigs) ==
    IF sigs[project_id] \in TermOutcomes(m, project_id) THEN sigs[project_id] ELSE "ok"

\* Lines 254-255: the loop over project_ids, up to the next stop_server that
\* suspends or to the end of the list.  An exception of stop_server would
\* leave the loop.
RECURSIVE StopAllLoop(_, _, _, _, _)
StopAllLoop(m, project_ids, id, sigs, failed) ==
    IF project_ids = << >>
    THEN SweepStep(Return(m, "None"), 0, << >>, failed)
    ELSE LET project_id == Head(project_ids)
             r == StopEntry(m, project_id, id, SigFor(m, project_id, sigs))
         IN  IF r.pc # "done" \/ r.ret = "raise"
             THEN SweepStep(r, project_id, Tail(project_ids), failed)
             ELSE StopAllLoop(r.m, Tail(project_ids), id, sigs,
                              failed \/ r.ret = "False")

\* The end r of a segment of stop_server, seen from the task: a start_server
\* that awaits the stop_server keeps its port argument while the stop_server
\* is suspended and goes on to line 123 when it returns, whatever it returns;
\* a stop_all_servers goes on with its loop.  avail is what the environment
\* answers in the rest of the segment: the probe to a start_server, terminate()
\* to a stop_all_servers.
Continue(tk, r, avail) ==
    IF tk.op = "stop_all"
    THEN IF r.pc # "done" \/ r.ret = "raise"
         THEN SweepStep(r, tk.project_id, tk.project_ids, FALSE)
         ELSE StopAllLoop(r.m, tk.project_ids, tk.id, avail, r.ret = "False")
    ELSE IF tk.op # "start" THEN r
    ELSE IF r.pc = "done" THEN StartResolve(r.m, tk.project_id, tk.port, avail)
    ELSE [r EXCEPT !.port = tk.port]

\* What the probe can answer: asked only by a start_server without a port.
\* For a stop_all_servers, what terminate() can answer for each owner.
Probes(tk) ==
    IF tk.op = "start" /\ tk.port = None THEN SUBSET ScanRange
    ELSE IF tk.op = "stop_all"
    THEN {sigs \in [Owners -> {"ok", "lookup", "error"}] :
             \A o \in Owners : sigs[o] \in TermOutcomes(Mgr, o)}
    ELSE {ScanRange}

\* No stop_all_servers call has been made.
NoSweep == [project_ids |-> << >>, rest |-> << >>, failed |-> FALSE,
            started |-> FALSE, infos0 |-> 0, ended |-> FALSE]

\* The stop_all_servers call tk in the log: entered when the call is made,
\* with the list it took from servers, whether a start_server was in flight
\* and how many records had been created.
Sweeping(tk) ==
    IF swept # NoSweep THEN swept
    ELSE [NoSweep EXCEPT !.project_ids = tk.project_ids,
                         !.started = \E u \in Tasks : tasks[u].op = "start",
                         !.infos0 = Len(infos)]

FreeTask(t) ==
    /\ tasks[t].op = "idle"
    /\ \A u \in Tasks : u < t => tasks[u].op # "idle"

NewTask(op, project_id, port) ==
    [IdleTask EXCEPT !.op = op, !.id = ncalls + 1, !.project_id = project_id,
                     !.port = port]

\* ------------------------------------------------------------ broadcaster
\* main.py: log_buffers, active_websockets and broadcast_to_project.  One
\* project has subscribers here; Sockets are the WebSocket objects.
Projects == {1}
Sockets == 1..2
Emitters == {"stdout", "stderr", "stop"}

\* A message: n numbers the broadcast_to_project calls in the order they were
\* made (0: sent by dev_server_websocket itself), src is the caller; line and
\* is_stderr are the fields of an output message of read_stream.
Msg(type, n, src, status) ==
    [type |-> type, n |-> n, src |-> src, status |-> status, line |-> << >>,
     is_stderr |-> FALSE]

NoMsg == Msg("none", 0, "", "")

\* The broadcaster's state as one value.
Bc == [log_buffers |-> log_buffers, active_websockets |-> active_websockets,
       lists |-> lists, sets |-> sets, inbox |-> inbox, appended |-> appended]

SetBc(b) ==
    /\ log_buffers' = b.log_buffers
    /\ active_websockets' = b.active_websockets
    /\ lists' = b.lists
    /\ sets' = b.sets
    /\ inbox' = b.inbox
    /\ appended' = b.appended

Min(S) == CHOOSE x \in S : \A y \in S : x <= y

\* list[-MAX_BUFFER_SIZE:]
LastEntries(list) ==
    IF Len(list) <= MAX_BUFFER_SIZE THEN list
    ELSE SubSeq(list, Len(list) - MAX_BUFFER_SIZE + 1, Len(list))

BufferAppendKeepsOldest(b, project_id, message) ==
    IF message.type # "output" THEN b
    ELSE LET b1 == IF project_id \notin DOMAIN b.log_buffers
                   THEN [b EXCEPT !.lists = Append(@, << >>),
                                  !.log_buffers = Put(@, project_id, Len(b.lists) + 1)]
                   ELSE b
             list == b1.log_buffers[project_id]
         IN  [b1 EXCEPT !.lists[list] =
                            IF Len(@) < MAX_BUFFER_SIZE THEN Append(@, message) ELSE @,
                        !.appended[project_id] = Append(@, message)]

\* A broadcaster that buffers every message.
BufferAppendStoresEverything(b, project_id, message) ==
    LET b1 == IF project_id \notin DOMAIN b.log_buffers
              THEN [b EXCEPT !.lists = Append(@, << >>),
                             !.log_buffers = Put(@, project_id, Len(b.lists) + 1)]
              ELSE b
        list == b1.log_buffers[project_id]
        b2 == [b1 EXCEPT !.lists[list] = Append(@, message),
                         !.appended[project_id] = Append(@, message)]
    IN  IF Len(b2.lists[list]) > MAX_BUFFER_SIZE
        THEN [b2 EXCEPT !.lists = Append(@, LastEntries(b2.lists[list])),
                        !.log_buffers[project_id] = Len(b2.lists) + 1]
        ELSE b2

\* Lines 60-66: an output message is appended to the project's list, which is
\* replaced by a new list of its last MAX_BUFFER_SIZE entries when it is longer.
BufferAppend(b, project_id, message) ==
    IF message.type # "output" THEN b
    ELSE LET b1 == IF project_id \notin DOMAIN b.log_buffers
                   THEN [b EXCEPT !.lists = Append(@, << >>),
                                  !.log_buffers = Put(@, project_id, Len(b.lists) + 1)]
                   ELSE b
             list == b1.log_buffers[project_id]
             b2 == [b1 EXCEPT !.lists[list] = Append(@, message),
                              !.appended[project_id] = Append(@, message)]
         IN  IF Len(b2.lists[list]) > MAX_BUFFER_SIZE
             THEN [b2 EXCEPT !.lists = Append(@, LastEntries(b2.lists[list])),
                             !.log_buffers[project_id] = Len(b2.lists) + 1]
             ELSE b2

\* The locals of a broadcast_to_project call: the message, the set object it
\* iterates with the size the iterator saw first and the socket it is at, and
\* disconnected; at_start is the set's content when the call began.
NoCall == [message |-> NoMsg, set |-> 0, size |-> 0, pos |-> 0,
           disconnected |-> {}, at_start |-> {}]

\* Where a segment of broadcast_to_project ends: "send" (suspended in
\* send_json) or "done", having returned ("return") or raised ("raise").
BStep(b, pc, ret, call) == [b |-> b, pc |-> pc, ret |-> ret, call |-> call]

\* Lines 77-80, after the loop.  The subscript of line 78 raises KeyError when
\* the project's entry has been deleted meanwhile.
BroadcastEnd(b, project_id, call) ==
    IF call.disconnected = {} THEN BStep(b, "done", "return", call)
    ELSE IF project_id \notin DOMAIN b.active_websockets
    THEN BStep(b, "done", "raise", call)
    ELSE LET set == b.active_websockets[project_id]
             b1 == [b EXCEPT !.sets[set] = @ \ call.disconnected]
         IN  BStep(IF b1.sets[set] = {}
                   THEN [b1 EXCEPT !.active_websockets = Del(@, project_id)]
                   ELSE b1,
                   "done", "return", call)

\* Lines 71-75: the loop over the set, from the iterator's next step to the
\* next send_json that suspends.  The iterator raises RuntimeError when the
\* set has changed size; it yields the sockets in one fixed order (here by
\* number).  send_json on a socket whose client has gone raises.
RECURSIVE BroadcastLoop(_, _, _, _)
BroadcastLoop(b, project_id, call, gone) ==
    IF Cardinality(b.sets[call.set]) # call.size
    THEN BStep(b, "done", "raise", call)
    ELSE LET rest == {ws \in b.sets[call.set] : ws > call.pos} IN
         IF rest = {} THEN BroadcastEnd(b, project_id, call)
         ELSE LET ws == Min(rest) IN
              IF ws \in gone
              THEN BroadcastLoop(b, project_id,
                                 [call EXCEPT !.pos = ws, !.disconnected = @ \cup {ws}],
                                 gone)
              ELSE BStep([b EXCEPT !.inbox[ws] = Append(@, call.message)],
                         "send", "none", [call EXCEPT !.pos = ws])

\* Lines 57-73: from the call to the first send_json that suspends, or to the
\* return.
BroadcastEntry(b, project_id, message, gone) ==
    LET b1 == BufferAppend(b, project_id, message) IN
    IF /\ project_id \in DOMAIN b1.active_websockets
       /\ b1.sets[b1.active_websockets[project_id]] # {}
    THEN LET set == b1.active_websockets[project_id] IN
         BroadcastLoop(b1, project_id,
                       [NoCall EXCEPT !.message = message, !.set = set,
                                      !.size = Cardinality(b1.sets[set]),
                                      !.at_start = b1.sets[set]],
                       gone)
    ELSE BStep(b1, "done", "return", [NoCall EXCEPT !.message = message])

\* Lines 73-75: the send_json the call was suspended in returns, or raises
\* because the client has gone meanwhile.
BroadcastResume(b, project_id, call, gone) ==
    BroadcastLoop(b, project_id,
                  IF call.pos \in gone
                  THEN [call EXCEPT !.disconnected = @ \cup {call.pos}]
                  ELSE call,
                  gone)

\* ----------------------------------------- callers of broadcast_to_project
\* The coroutines that broadcast: the two read_stream loops of
\* stream_process_to_websockets ("stdout", "stderr") and the stop endpoint
\* ("stop", lines 556-568 of stop_dev_server).  pc: "off" (not started),
\* "read" (in readline), "sleep" (in sleep(0.1)), "send" (inside
\* broadcast_to_project, suspended in send_json), "done".  phase: which
\* broadcast_to_project call the coroutine is in.
\* fed: the lines readline has returned to a read loop, oldest first.
Emitter(pc, phase, call) == [pc |-> pc, phase |-> phase, call |-> call, fed |-> << >>]

\* The bytes of a line, one string each: a letter, a blank, the terminator and
\* a byte that is not valid UTF-8.
Bytes == {"a", " ", "\n", "x80"}
Whitespace == {" ", "\n"}

\* The lines readline returns here: text, text with blanks around it, a line
\* of blanks, an empty line and a line with an invalid byte.
TextLines == {<<"a", "\n">>, <<" ", "a", " ", "\n">>, <<" ", "\n">>, <<"\n">>,
              <<"x80", "\n">>}

\* line.decode('utf-8', errors='replace')
decode(line) == [i \in DOMAIN line |-> IF line[i] = "x80" THEN "ufffd" ELSE line[i]]

KeepsWhitespace(text) == text

\* text.rstrip()
RECURSIVE rstrip(_)
rstrip(text) ==
    IF text # << >> /\ text[Len(text)] \in Whitespace
    THEN rstrip(SubSeq(text, 1, Len(text) - 1))
    ELSE text

\* Lines 586-590: the message read_stream broadcasts for a line.
OutputMsg(n, e, text) ==
    [Msg("output", n, e, "") EXCEPT !.line = text, !.is_stderr = (e = "stderr")]

\* The end of a broadcast_to_project call, for the properties.
Ended(e, phase, bs) == [e |-> e, phase |-> phase, ret |-> bs.ret, call |-> bs.call]

\* Lines 567-568 of stop_dev_server.
ClearBuffer(b, project_id) ==
    [b EXCEPT !.log_buffers = IF project_id \in DOMAIN @ THEN Del(@, project_id) ELSE @,
              !.appended[project_id] = << >>]

\* Where a segment of a caller ends: the broadcaster, the caller's frame, the
\* calls that ended in the segment and how many calls it made after the first.
EStep(b, fr, ends, made) == [b |-> b, fr |-> fr, ends |-> ends, made |-> made]

ReadLoopGoesOnAfterError(e, phase, bs, project_id, n, gone) ==
    IF bs.pc = "send"
    THEN EStep(bs.b, Emitter("send", phase, bs.call), << >>, 0)
    ELSE EStep(bs.b, Emitter("read", "", NoCall), <<Ended(e, phase, bs)>>, 0)

\* A caller goes on from the end bs of a segment of the broadcast_to_project
\* call it is in.  read_stream (lines 577-595): after the broadcast of a line,
\* back to readline; when that broadcast raised, the handler broadcasts an
\* error message; after that broadcast the loop is over.  stop_dev_server
\* (lines 556-568): the status message, then the output message, then the
\* buffer is deleted; an exception ends the endpoint.  n numbers the next call.
RECURSIVE EmitAfter(_, _, _, _, _, _)
EmitAfter(e, phase, bs, project_id, n, gone) ==
    IF bs.pc = "send"
    THEN EStep(bs.b, Emitter("send", phase, bs.call), << >>, 0)
    ELSE LET end == Ended(e, phase, bs)
             next == IF phase = "line" THEN "error" ELSE "output"
             message == IF phase = "line" THEN Msg("error", n, e, "")
                        ELSE Msg("output", n, e, "")
             r == EmitAfter(e, next, BroadcastEntry(bs.b, project_id, message, gone),
                            project_id, n + 1, gone)
         IN  IF (phase = "line" /\ bs.ret = "raise") \/ (phase = "status" /\ bs.ret = "return")
             THEN EStep(r.b, r.fr, <<end>> \o r.ends, r.made + 1)
             ELSE IF phase = "line"
             THEN EStep(bs.b, Emitter("read", "", NoCall), <<end>>, 0)
             ELSE IF phase = "output" /\ bs.ret = "return"
             THEN EStep(ClearBuffer(bs.b, project_id), Emitter("done", "", NoCall), <<end>>, 0)
             ELSE EStep(bs.b, Emitter("done", "", NoCall), <<end>>, 0)

\* ------------------------------------------------- dev_server_websocket
\* The handler of one socket.  pc: "none" (no connection yet), "status"
\* (suspended in the send_json of the initial status), "replay" (suspended in
\* the send_json of a buffered message), "recv" (in receive_text), "closed".
\* server_info is the record the handler read at line 620 (a reference), list
\* the list it replays and idx its position in it; calls and calm are what
\* the properties need of the moment it subscribed: the number of
\* broadcast_to_project calls made and whether none was in progress.  inbound
\* counts the messages receive_text returned, pings those that were a ping
\* and bad those that raised in lines 651-654.  pc is "pong" or "err" while
\* the handler is suspended in the send_json of line 654 or of line 658.
NoConn == [pc |-> "none", project_id |-> 0, server_info |-> 0, list |-> 0, idx |-> 0,
           calls |-> 0, calm |-> FALSE, inbound |-> 0, pings |-> 0, bad |-> 0]

\* Where a segment of the handler ends.
CStep(b, conn) == [b |-> b, conn |-> conn]

\* Lines 665-670: the finally block.
Leave(b, project_id, ws) ==
    IF project_id \notin DOMAIN b.active_websockets THEN b
    ELSE LET set == b.active_websockets[project_id]
             b1 == [b EXCEPT !.sets[set] = @ \ {ws}]
         IN  IF b1.sets[set] = {}
             THEN [b1 EXCEPT !.active_websockets = Del(@, project_id)]
             ELSE b1

Close(b, conn, ws) == CStep(Leave(b, conn.project_id, ws), [conn EXCEPT !.pc = "closed"])

\* What a client can send: a ping, another JSON object, or text that
\* json.loads or message.get raises on.
Inbound == {"ping", "other", "bad"}

\* A receive loop whose handler of line 657 leaves the loop after the error
\* message.
ReceiveBreaksOnError(b, conn, ws, kind) ==
    LET c == [conn EXCEPT !.inbound = @ + 1] IN
    IF kind = "ping"
    THEN CStep([b EXCEPT !.inbox[ws] = Append(@, Msg("pong", 0, "ws", ""))],
               [c EXCEPT !.pc = "pong", !.pings = @ + 1])
    ELSE IF kind = "bad"
    THEN Close([b EXCEPT !.inbox[ws] = Append(@, Msg("error", 0, "ws", ""))],
               [c EXCEPT !.bad = @ + 1], ws)
    ELSE CStep(b, c)

\* Lines 650-661: receive_text returns a message of the given kind.
Receive(b, conn, ws, kind) ==
    LET c == [conn EXCEPT !.inbound = @ + 1] IN
    IF kind = "ping"
    THEN CStep([b EXCEPT !.inbox[ws] = Append(@, Msg("pong", 0, "ws", ""))],
               [c EXCEPT !.pc = "pong", !.pings = @ + 1])
    ELSE IF kind = "bad"
    THEN CStep([b EXCEPT !.inbox[ws] = Append(@, Msg("error", 0, "ws", ""))],
               [c EXCEPT !.pc = "err", !.bad = @ + 1])
    ELSE CStep(b, c)

\* Lines 633-637: the loop over the list, up to the next send_json that
\* suspends.  The list iterator compares its index with the length the list
\* has now; a send_json that raises is skipped.
RECURSIVE ReplayLoop(_, _, _, _)
ReplayLoop(b, conn, ws, gone) ==
    IF conn.idx > Len(b.lists[conn.list])
    THEN CStep(b, [conn EXCEPT !.pc = "recv"])
    ELSE IF ws \in gone
    THEN ReplayLoop(b, [conn EXCEPT !.idx = @ + 1], ws, gone)
    ELSE CStep([b EXCEPT !.inbox[ws] = Append(@, b.lists[conn.list][conn.idx])],
               [conn EXCEPT !.pc = "replay", !.idx = @ + 1])

\* Lines 631-637: the buffer is replayed when the record read at line 620 is
\* RUNNING now and the project has a buffer.
Replay(b, m, conn, ws, gone) ==
    IF /\ conn.server_info # 0
       /\ m.infos[conn.server_info].status = RUNNING
       /\ conn.project_id \in DOMAIN b.log_buffers
    THEN ReplayLoop(b, [conn EXCEPT !.list = b.log_buffers[conn.project_id], !.idx = 1],
                    ws, gone)
    ELSE CStep(b, [conn EXCEPT !.pc = "recv"])

\* The status message of lines 624-629 or 639-642.
StatusMsg(m, server_info) ==
    Msg("status", 0, "ws", IF server_info = 0 THEN STOPPED ELSE m.infos[server_info].status)

\* Lines 613-629, after accept() returned: the socket is added to the
\* project's set, the record is read and the status is sent.
Subscribe(b, m, project_id, ws, gone, conn) ==
    LET b1 == IF project_id \notin DOMAIN b.active_websockets
              THEN [b EXCEPT !.sets = Append(@, {}),
                             !.active_websockets = Put(@, project_id, Len(b.sets) + 1)]
              ELSE b
        b2 == [b1 EXCEPT !.sets[b1.active_websockets[project_id]] = @ \cup {ws}]
    IN  IF ws \in gone THEN Close(b2, conn, ws)
        ELSE CStep([b2 EXCEPT !.inbox[ws] = Append(@, StatusMsg(m, conn.server_info))],
                   [conn EXCEPT !.pc = "status"])

\* ------------------------------------------------------- start_dev_server
\* The start endpoint of main.py, for a project without subscribers: its
\* broadcast_to_project calls do not suspend.  pc: "idle" (no request),
\* "install" (suspended in install_dependencies, line 440), "start" (inside
\* start_server, line 475), "done" (responded, ret the HTTP status).
NoRequest == [pc |-> "idle", project_id |-> 0, ret |-> "none"]

Request(pc, project_id, ret) == [pc |-> pc, project_id |-> project_id, ret |-> ret]

\* A segment of request t ends: its frame, the broadcaster after the n calls
\* made so far and the pump tasks created.
Respond(t, frame, b, n, created) ==
    /\ SetBc(b)
    /\ nmsg' = n
    /\ requests' = [requests EXCEPT ![t] = frame]
    /\ stream_tasks' = created
    /\ delivered' = << >>
    /\ UNCHANGED <<broken, conns, emit>>

\* Lines 475-514: the segment r of the start_server call the endpoint awaits
\* has ended.  When the call returned a record, the status is broadcast, the
\* project gets a buffer if it has none, and a pump task is created when the
\* record has a process now; an exception becomes a 500 response.
Served(t, tk, r, b, n) ==
    IF r.pc # "done"
    THEN Respond(t, Request("start", tk.project_id, "none"), b, n, stream_tasks)
    ELSE IF r.ret # "info"
    THEN Respond(t, Request("done", tk.project_id, "500"), b, n, stream_tasks)
    ELSE LET server_info == r.m.infos[r.info]
             bs == BroadcastEntry(b, tk.project_id,
                                  Msg("status", n + 1, "start", server_info.status), broken)
             b1 == IF tk.project_id \notin DOMAIN bs.b.log_buffers
                   THEN [bs.b EXCEPT !.lists = Append(@, << >>),
                                     !.log_buffers = Put(@, tk.project_id, Len(bs.b.lists) + 1)]
                   ELSE bs.b
         IN  /\ bs.pc = "done"
             /\ Respond(t, Request("done", tk.project_id, "200"), b1, n + 1,
                        IF server_info.process # None
                        THEN Append(stream_tasks, server_info.process)
                        ELSE stream_tasks)

\* ------------------------------------------------------------------ steps
\* The manager's part of a step of task t to the end r of a segment.
AdvanceMgr(t, tk, r) ==
    /\ SetMgr(r.m)
    /\ IF r.pc = "done"
       THEN /\ tasks' = [tasks EXCEPT ![t] = IdleTask]
            /\ result' = [op |-> tk.op, project_id |-> tk.project_id,
                          ret |-> r.ret, info |-> r.info, port |-> r.port,
                          sync |-> tasks[t].op = "idle"]
       ELSE /\ tasks' = [tasks EXCEPT ![t] =
                    [tk EXCEPT !.pc = r.pc, !.info = r.info, !.port = r.port,
                               !.port_to_release = r.port_to_release,
                               !.polls = r.polls,
                               !.project_id = IF tk.op = "stop_all"
                                              THEN r.project_id ELSE @,
                               !.project_ids = IF tk.op = "stop_all"
                                               THEN r.project_ids ELSE @]]
            /\ result' = NoResult
    /\ swept' = IF tk.op = "stop_all"
                THEN [Sweeping(tk) EXCEPT !.rest = r.project_ids,
                                          !.failed = @ \/ r.failed,
                                          !.ended = r.pc = "done"]
                ELSE swept

\* The task goes on to the end of the segment r; when the start endpoint
\* awaits the call, the endpoint goes on in the same step.
Advance(t, tk, r) ==
    /\ AdvanceMgr(t, tk, r)
    /\ UNCHANGED granted
    /\ IF requests[t].pc = "start"
       THEN Served(t, tk, r, Bc, nmsg)
       ELSE UNCHANGED pump

\* ---------------------------------------------------------------- actions
PumpInit ==
    /\ log_buffers = << >>
    /\ active_websockets = << >>
    /\ lists = << >>
    /\ sets = << >>
    /\ inbox = [ws \in Sockets |-> << >>]
    /\ broken = {}
    /\ conns = [ws \in Sockets |-> NoConn]
    /\ emit = [e \in Emitters |-> Emitter("off", "", NoCall)]
    /\ appended = [project_id \in Projects |-> << >>]
    /\ nmsg = 0
    /\ delivered = << >>
    /\ requests = [t \in Tasks |-> NoRequest]
    /\ stream_tasks = << >>

Init ==
    /\ servers = << >>
    /\ port_allocations = << >>
    /\ infos = << >>
    /\ procs = << >>
    /\ tasks = [t \in Tasks |-> IdleTask]
    /\ ncalls = 0
    /\ result = NoResult
    /\ granted = << >>
    /\ swept = NoSweep
    /\ PumpInit

\* A caller awaits start_server(project_id, ..., port).
CallStart(t, project_id, port) ==
    /\ FreeTask(t)
    /\ ncalls < MaxCalls
    /\ ncalls' = ncalls + 1
    /\ LET tk == NewTask("start", project_id, port) IN
       \E avail \in Probes(tk) : \E sig \in TermOutcomes(Mgr, project_id) :
          Advance(t, tk, StartEntry(Mgr, project_id, port, avail, tk.id, sig))

\* A caller awaits stop_server(project_id).
CallStop(t, project_id) ==
    /\ FreeTask(t)
    /\ ncalls < MaxCalls
    /\ ncalls' = ncalls + 1
    /\ LET tk == NewTask("stop", project_id, None) IN
       \E sig \in TermOutcomes(Mgr, project_id) :
          Advance(t, tk, StopEntry(Mgr, project_id, tk.id, sig))

\* create_subprocess_exec returns a process.
SpawnOk(t) ==
    /\ tasks[t].pc = "spawn"
    /\ Advance(t, tasks[t], StartSpawned(Mgr, tasks[t].info, tasks[t].project_id))
    /\ UNCHANGED ncalls

\* create_subprocess_exec raises.
SpawnFail(t) ==
    /\ tasks[t].pc = "spawn"
    /\ Advance(t, tasks[t], StartFailed(Mgr, tasks[t].info, tasks[t].port))
    /\ UNCHANGED ncalls

\* process.wait() returns inside wait_for: the process has exited.
WaitTermExit(t) ==
    LET tk == tasks[t] IN
    /\ tk.pc = "wait_term"
    /\ ~procs[infos[tk.info].process].alive
    /\ \E avail \in Probes(tk) :
          Advance(t, tk, Continue(tk, StopCleanup(Mgr, tk.project_id, tk.info,
                                                  tk.port_to_release), avail))
    /\ UNCHANGED ncalls

\* wait_for times out after 5 s.
WaitTermTimeout(t) ==
    LET tk == tasks[t] IN
    /\ tk.pc = "wait_term"
    /\ \E avail \in Probes(tk) :
       \E sig \in SignalOutcomes(Mgr, infos[tk.info].process) :
          Advance(t, tk, Continue(tk, StopTimeout(Mgr, tk.project_id, tk.id, tk.info,
                                                  tk.port_to_release, sig), avail))
    /\ UNCHANGED ncalls

\* process.wait() returns after the kill.
WaitKillExit(t) ==
    LET tk == tasks[t] IN
    /\ tk.pc = "wait_kill"
    /\ ~procs[infos[tk.info].process].alive
    /\ \E avail \in Probes(tk) :
          Advance(t, tk, Continue(tk, StopCleanup(Mgr, tk.project_id, tk.info,
                                                  tk.port_to_release), avail))
    /\ UNCHANGED ncalls

\* The timers of the loop fire in the order of their deadlines: the tenth
\* sleep(0.5) of a poll loop does not end before a wait_for(..., 5.0) that
\* began earlier.
TimersAllow(t) ==
    tasks[t].polls + 1 = StopPolls =>
        \A u \in Tasks : tasks[u].pc = "wait_term" => tasks[u].id > tasks[t].id

\* asyncio.sleep(0.5) returns in the poll loop.
Poll(t) ==
    LET tk == tasks[t] IN
    /\ tk.pc = "poll"
    /\ TimersAllow(t)
    /\ \E avail \in Probes(tk) :
          Advance(t, tk, Continue(tk, StopPoll(Mgr, tk.project_id, tk.polls), avail))
    /\ UNCHANGED ncalls

\* A caller (the start endpoint) calls allocate_port(project_id): it does not
\* await, so the call is one step.
AllocatePort(project_id) ==
    \E avail \in SUBSET ScanRange :
        /\ ncalls < MaxCalls
        /\ ncalls' = ncalls + 1
        /\ SetMgr(allocate_port(Mgr, project_id, avail).m)
        /\ result' = [op |-> "allocate_port", project_id |-> project_id,
                      ret |-> "port", info |-> 0,
                      port |-> allocate_port(Mgr, project_id, avail).ret,
                      sync |-> TRUE]
        /\ UNCHANGED <<tasks, granted, swept, pump>>

\* A child process exits (on a signal or by itself).
ProcExit(p) ==
    /\ procs[p].alive
    /\ procs' = [procs EXCEPT ![p].alive = FALSE]
    /\ result' = NoResult
    /\ UNCHANGED <<servers, port_allocations, infos, tasks, ncalls, granted, swept, pump>>

Next ==
    \/ \E t \in Tasks, o \in Owners, port \in PortArgs : CallStart(t, o, port)
    \/ \E t \in Tasks, o \in Owners : CallStop(t, o)
    \/ \E t \in Tasks : SpawnOk(t)
    \/ \E t \in Tasks : SpawnFail(t)
    \/ \E t \in Tasks : WaitTermExit(t)
    \/ \E t \in Tasks : WaitTermTimeout(t)
    \/ \E t \in Tasks : WaitKillExit(t)
    \/ \E t \in Tasks : Poll(t)
    \/ \E o \in Owners : AllocatePort(o)
    \/ \E p \in DOMAIN procs : ProcExit(p)

Spec == Init /\ [][Next]_vars

\* The event loop resumes a coroutine whose sleep or wait_for timer is due and
\* one whose process has exited; a process that was sent SIGKILL exits.
Fairness ==
    /\ \A t \in Tasks : WF_vars(Poll(t))
    /\ \A t \in Tasks : WF_vars(WaitTermTimeout(t))
    /\ \A t \in Tasks : WF_vars(WaitKillExit(t))
    /\ \A p \in 1..MaxCalls :
          WF_vars(p \in DOMAIN procs /\ procs[p].killed /\ ProcExit(p))

SpecLive == Spec /\ Fairness

\* ------------------------------------------------------- sequential use
\* The manager used by one caller at a time: a method is called only when no
\* coroutine is in flight.  The port argument may also lie outside the range
\* the allocator scans.
AllIdle == \A t \in Tasks : tasks[t].op = "idle"

SeqStart(project_id, port) == AllIdle /\ CallStart(1, project_id, port)

SeqStop(project_id) == AllIdle /\ CallStop(1, project_id)

SeqAllocate(project_id) == AllIdle /\ AllocatePort(project_id)

NextSeq ==
    \/ \E o \in Owners, port \in PortArgs \cup {ExtraPort} : SeqStart(o, port)
    \/ \E o \in Owners : SeqStop(o)
    \/ \E o \in Owners : SeqAllocate(o)
    \/ SpawnOk(1)
    \/ SpawnFail(1)
    \/ WaitTermExit(1)
    \/ WaitTermTimeout(1)
    \/ WaitKillExit(1)
    \/ \E p \in DOMAIN procs : ProcExit(p)

SpecSeq == Init /\ [][NextSeq]_vars

\* ------------------------------------------------------ allocator scenario
\* A manager on which only allocate_port is called, by up to max_attempts + 1
\* owners, each call with some answer of the probe; the calls are logged.
AllocCall(project_id) ==
    \E avail \in SUBSET ScanRange :
        /\ Len(granted) <= max_attempts
        /\ SetMgr(allocate_port(Mgr, project_id, avail).m)
        /\ granted' = Append(granted,
                [project_id |-> project_id,
                 port |-> allocate_port(Mgr, project_id, avail).ret,
                 all_free |-> avail = ScanRange])
        /\ UNCHANGED <<tasks, ncalls, result, swept, pump>>

NextAlloc == \E o \in AllocOwners : AllocCall(o)

SpecAlloc == Init /\ [][NextAlloc]_vars

\* ---------------------------------------------------------------- getters
\* A caller calls a getter between two steps of the calls in progress.
Get(op, project_id) ==
    LET r == IF op = "get_server_info" THEN get_server_info(Mgr, project_id)
             ELSE IF op = "get_server_status" THEN get_server_status(Mgr, project_id)
             ELSE is_running(Mgr, project_id)
    IN  /\ SetMgr(r.m)
        /\ result' = [op |-> op, project_id |-> project_id, ret |-> r.ret,
                      info |-> r.info, port |-> None, sync |-> TRUE]
        /\ UNCHANGED <<tasks, ncalls, granted, swept, pump>>

NextGet ==
    \/ Next
    \/ \E op \in Getters, o \in Owners : Get(op, o)

SpecGet == Init /\ [][NextGet]_vars

\* -------------------------------------------------------- release_port
\* The ports a lease can be on: those the scan reaches and one given to
\* start_server explicitly.
LeasePorts == ScanRange \cup {ExtraPort}

\* A manager with any leases, as allocate_port and start_server calls have
\* left them, and no record.
InitRelease ==
    /\ \E held \in SUBSET LeasePorts : port_allocations \in [held -> AllocOwners]
    /\ servers = << >>
    /\ infos = << >>
    /\ procs = << >>
    /\ tasks = [t \in Tasks |-> IdleTask]
    /\ ncalls = 0
    /\ result = NoResult
    /\ granted = << >>
    /\ swept = NoSweep
    /\ PumpInit

\* release_port(port) is called; the result names the owner that held the
\* port, if any.
ReleasePort(port) ==
    /\ SetMgr(release_port(Mgr, port))
    /\ result' = [op |-> "release_port",
                  project_id |-> IF port \in DOMAIN port_allocations
                                 THEN port_allocations[port] ELSE 0,
                  ret |-> "None", info |-> 0, port |-> port, sync |-> TRUE]
    /\ UNCHANGED <<tasks, ncalls, granted, swept, pump>>

NextRelease == \E port \in LeasePorts : ReleasePort(port)

SpecRelease == InitRelease /\ [][NextRelease]_vars

\* ------------------------------------------------------ log streaming
\* The manager is left alone here.
MgrUnchanged ==
    UNCHANGED <<servers, port_allocations, infos, procs, tasks, ncalls, result,
                granted, swept, requests, stream_tasks>>

\* The process whose output the read loops forward.
PumpedProcess == 1

\* A caller's segment ends in r.
Emit(e, r) ==
    /\ SetBc(r.b)
    /\ emit' = [emit EXCEPT ![e] = [r.fr EXCEPT !.fed = emit[e].fed]]
    /\ delivered' = r.ends
    /\ nmsg' = nmsg + 1 + r.made
    /\ UNCHANGED <<broken, conns>>
    /\ MgrUnchanged

\* readline() returns a line (lines 580-590): it is decoded and trimmed and,
\* when text is left, broadcast; the loop goes back to readline otherwise.
ReadText(e, project_id, line) ==
    LET text == rstrip(decode(line))
        r == EmitAfter(e, "line",
                       BroadcastEntry(Bc, project_id, OutputMsg(nmsg + 1, e, text), broken),
                       project_id, nmsg + 2, broken)
        fed == Append(emit[e].fed, line)
    IN  /\ emit[e].pc = "read"
        /\ procs[PumpedProcess].alive
        /\ Len(emit[e].fed) < MaxLines
        /\ IF text # << >>
           THEN /\ nmsg < MaxMsgs
                /\ SetBc(r.b)
                /\ emit' = [emit EXCEPT ![e] = [r.fr EXCEPT !.fed = fed]]
                /\ delivered' = r.ends
                /\ nmsg' = nmsg + 1 + r.made
           ELSE /\ emit' = [emit EXCEPT ![e].fed = fed]
                /\ delivered' = << >>
                /\ UNCHANGED <<log_buffers, active_websockets, lists, sets, inbox,
                               appended, nmsg>>
        /\ UNCHANGED <<broken, conns>>
        /\ MgrUnchanged

\* A line of text and its terminator.
PlainLine == <<"a", "\n">>

\* readline() returns a line with text in it: it is broadcast (lines 580-590).
ReadLine(e, project_id) == ReadText(e, project_id, PlainLine)

\* readline() returns b"": the stream is at its end, the loop sleeps (581-583).
ReadEof(e) ==
    /\ emit[e].pc = "read"
    /\ ~procs[PumpedProcess].alive
    /\ emit' = [emit EXCEPT ![e].pc = "sleep"]
    /\ delivered' = << >>
    /\ UNCHANGED <<log_buffers, active_websockets, lists, sets, inbox, broken, conns,
                   appended, nmsg>>
    /\ MgrUnchanged

\* sleep(0.1) returns: back to readline (line 583).
Wake(e) ==
    /\ emit[e].pc = "sleep"
    /\ emit' = [emit EXCEPT ![e].pc = "read"]
    /\ delivered' = << >>
    /\ UNCHANGED <<log_buffers, active_websockets, lists, sets, inbox, broken, conns,
                   appended, nmsg>>
    /\ MgrUnchanged

\* readline() raises: the handler broadcasts an error message (lines 591-595).
ReadError(e, project_id) ==
    /\ emit[e].pc = "read"
    /\ nmsg < MaxMsgs
    /\ Emit(e, EmitAfter(e, "error",
                         BroadcastEntry(Bc, project_id, Msg("error", nmsg + 1, e, ""), broken),
                         project_id, nmsg + 2, broken))

\* stop_dev_server after stop_server returned True, which leaves no record and
\* the process exited: it broadcasts the status and an output message, then
\* deletes the buffer (lines 556-568).
StopEndpoint(project_id) ==
    /\ emit["stop"].pc = "off"
    /\ project_id \notin DOMAIN servers
    /\ ~procs[PumpedProcess].alive
    /\ nmsg + 1 < MaxMsgs
    /\ Emit("stop", EmitAfter("stop", "status",
                              BroadcastEntry(Bc, project_id,
                                             Msg("status", nmsg + 1, "stop", STOPPED), broken),
                              project_id, nmsg + 2, broken))

\* The send_json a broadcast_to_project call is suspended in returns or raises.
SendDone(e, project_id) ==
    /\ emit[e].pc = "send"
    /\ LET r == EmitAfter(e, emit[e].phase,
                          BroadcastResume(Bc, project_id, emit[e].call, broken),
                          project_id, nmsg + 1, broken)
       IN  /\ SetBc(r.b)
           /\ emit' = [emit EXCEPT ![e] = [r.fr EXCEPT !.fed = emit[e].fed]]
           /\ delivered' = r.ends
           /\ nmsg' = nmsg + r.made
    /\ UNCHANGED <<broken, conns>>
    /\ MgrUnchanged

\* A segment of the handler of socket ws ends in r.
Handle(ws, r) ==
    /\ SetBc(r.b)
    /\ conns' = [conns EXCEPT ![ws] = r.conn]
    /\ delivered' = << >>
    /\ UNCHANGED <<broken, emit, nmsg>>
    /\ MgrUnchanged

\* A client connects and accept() returns (lines 611-629).
Connect(ws, project_id) ==
    /\ conns[ws].pc = "none"
    /\ Handle(ws, Subscribe(Bc, Mgr, project_id, ws, broken,
                            [NoConn EXCEPT !.project_id = project_id,
                                           !.server_info = IF project_id \in DOMAIN servers
                                                           THEN servers[project_id] ELSE 0,
                                           !.calls = nmsg,
                                           !.calm = \A e \in Emitters : emit[e].pc # "send"]))

\* The send_json of the initial status returns or raises (lines 624-642).
StatusSent(ws) ==
    /\ conns[ws].pc = "status"
    /\ Handle(ws, IF ws \in broken THEN Close(Bc, conns[ws], ws)
                  ELSE Replay(Bc, Mgr, conns[ws], ws, broken))

\* The send_json of a buffered message returns or raises (lines 633-637).
ReplaySent(ws) ==
    /\ conns[ws].pc = "replay"
    /\ Handle(ws, ReplayLoop(Bc, conns[ws], ws, broken))

\* receive_text raises WebSocketDisconnect: the handler leaves (655-670).
Closed(ws) ==
    /\ conns[ws].pc = "recv"
    /\ ws \in broken
    /\ Handle(ws, Close(Bc, conns[ws], ws))

\* receive_text returns a message of the client (lines 650-658).
ReceiveText(ws, kind) ==
    /\ conns[ws].pc = "recv"
    /\ ws \notin broken
    /\ conns[ws].inbound < MaxInbound
    /\ Handle(ws, Receive(Bc, conns[ws], ws, kind))

\* The send_json of the pong or of the error message returns, back to
\* receive_text, or raises because the client has gone: the exception leaves
\* the loop, at once or from the send_json of the handler of line 657.
ReplySent(ws) ==
    /\ conns[ws].pc \in {"pong", "err"}
    /\ Handle(ws, IF ws \in broken THEN Close(Bc, conns[ws], ws)
                  ELSE CStep(Bc, [conns[ws] EXCEPT !.pc = "recv"]))

\* The client of a socket goes away.
Disconnect(ws) ==
    /\ conns[ws].pc \notin {"none", "closed"}
    /\ ws \notin broken
    /\ broken' = broken \cup {ws}
    /\ delivered' = << >>
    /\ UNCHANGED <<log_buffers, active_websockets, lists, sets, inbox, conns, emit,
                   appended, nmsg>>
    /\ MgrUnchanged

\* A state in which the output of the process spawned first is streamed.  The
\* project has no record ("none") or one in the given status, created by
\* start_server on base_port; the two read loops are in readline; the sockets
\* in subscribed have connected and are in receive_text; the project's buffer
\* is the empty list start_dev_server made (lines 492-497).  inbox holds what
\* a socket is sent from here on.
Streaming(status, alive, subscribed) ==
    /\ servers = IF status = "none" THEN << >> ELSE <<1>>
    /\ infos = IF status = "none" THEN << >>
               ELSE <<[DevServerInfo(1, base_port, status) EXCEPT
                          !.process = IF status = STARTING THEN None ELSE PumpedProcess,
                          !.pid = IF status = STARTING THEN None ELSE PumpedProcess,
                          !.error_message = status = ERROR]>>
    /\ port_allocations = IF status \in {"none", ERROR} THEN << >>
                          ELSE [port \in {base_port} |-> 1]
    /\ procs = <<[owner |-> 1, alive |-> alive, killed |-> FALSE, stops |-> 0]>>
    /\ tasks = [t \in Tasks |-> IdleTask]
    /\ ncalls = 0
    /\ result = NoResult
    /\ granted = << >>
    /\ swept = NoSweep
    /\ log_buffers = <<1>>
    /\ lists = << << >> >>
    /\ active_websockets = IF subscribed = {} THEN << >> ELSE <<1>>
    /\ sets = IF subscribed = {} THEN << >> ELSE <<subscribed>>
    /\ inbox = [ws \in Sockets |-> << >>]
    /\ broken = {}
    /\ conns = [ws \in Sockets |->
                   IF ws \in subscribed
                   THEN [NoConn EXCEPT !.pc = "recv", !.project_id = 1,
                                       !.server_info = IF status = "none" THEN 0 ELSE 1,
                                       !.calm = TRUE]
                   ELSE NoConn]
    /\ emit = [e \in Emitters |->
                  Emitter(IF e = "stop" THEN "off" ELSE "read", "", NoCall)]
    /\ appended = [project_id \in Projects |-> << >>]
    /\ nmsg = 0
    /\ delivered = << >>
    /\ requests = [t \in Tasks |-> NoRequest]
    /\ stream_tasks = << >>

\* The process whose output is streamed has exited when its project has no
\* record (stop_server waited for it) or a STARTING one (a later start).
PumpRecords == {"none", STARTING, RUNNING, STOPPING, ERROR}

\* The output of a running server is streamed to two subscribers.
InitPump == Streaming(RUNNING, TRUE, Sockets)

NextPump ==
    \/ \E e \in {"stdout", "stderr"}, project_id \in Projects : ReadLine(e, project_id)
    \/ \E e \in {"stdout", "stderr"} : ReadEof(e)
    \/ \E e \in {"stdout", "stderr"} : Wake(e)
    \/ \E e \in {"stdout", "stderr"}, project_id \in Projects : ReadError(e, project_id)
    \/ \E e \in {"stdout", "stderr"}, project_id \in Projects : SendDone(e, project_id)
    \/ \E ws \in Sockets : Closed(ws)
    \/ \E ws \in Sockets : Disconnect(ws)
    \/ ProcExit(PumpedProcess)

SpecPump == InitPump /\ [][NextPump]_vars

\* The read loops of a running server with one subscriber, every coroutine
\* that can go on going on eventually: readline returns at the end of the
\* stream, sleep returns, a send_json returns or raises.  Whether the process
\* writes, exits or a read fails is up to the process.
InitLive == Streaming(RUNNING, TRUE, {1})

NextLive ==
    \/ \E e \in {"stdout", "stderr"}, project_id \in Projects : ReadLine(e, project_id)
    \/ \E e \in {"stdout", "stderr"} : ReadEof(e)
    \/ \E e \in {"stdout", "stderr"} : Wake(e)
    \/ \E e \in {"stdout", "stderr"}, project_id \in Projects : ReadError(e, project_id)
    \/ \E e \in {"stdout", "stderr"}, project_id \in Projects : SendDone(e, project_id)
    \/ ProcExit(PumpedProcess)

SpecPumpLive ==
    /\ InitLive
    /\ [][NextLive]_vars
    /\ \A e \in {"stdout", "stderr"} :
          /\ WF_vars(ReadEof(e))
          /\ WF_vars(Wake(e))
          /\ WF_vars(\E project_id \in Projects : SendDone(e, project_id))

\* A subscriber that joins while stdout is streamed, or while the stop
\* endpoint reports a server stopped.
Joiners == {1}

InitJoin ==
    \E status \in PumpRecords :
        Streaming(status, status \notin {"none", STARTING}, {})

NextJoin ==
    \/ \E project_id \in Projects : ReadLine("stdout", project_id)
    \/ \E project_id \in Projects : StopEndpoint(project_id)
    \/ \E e \in {"stdout", "stop"}, project_id \in Projects : SendDone(e, project_id)
    \/ \E ws \in Joiners, project_id \in Projects : Connect(ws, project_id)
    \/ \E ws \in Joiners : StatusSent(ws)
    \/ \E ws \in Joiners : ReplaySent(ws)
    \/ \E ws \in Joiners : Closed(ws)
    \/ \E ws \in Joiners : Disconnect(ws)

SpecJoin == InitJoin /\ [][NextJoin]_vars

\* -------------------------------------------------------- shutdown scenario
\* The orders in which a dictionary with these keys can list them.
Orders(keys) ==
    {ids \in [1..Cardinality(keys) -> keys] : \A i, j \in DOMAIN ids : i # j => ids[i] # ids[j]}

\* A caller (the lifespan handler at shutdown) awaits stop_all_servers(), once.
CallStopAll(t) ==
    /\ FreeTask(t)
    /\ ncalls < MaxCalls
    /\ swept = NoSweep
    /\ ncalls' = ncalls + 1
    /\ \E project_ids \in Orders(DOMAIN servers) :
          LET tk == [NewTask("stop_all", 0, None) EXCEPT !.project_ids = project_ids] IN
          \E sigs \in Probes(tk) :
              Advance(t, tk, StopAllLoop(Mgr, project_ids, tk.id, sigs, FALSE))

\* The calls made while the application runs and at its shutdown.  Each owner
\* is started on a port of its own, as by the start endpoint, which passes the
\* port it allocated for the owner.
NextAll ==
    \/ \E t \in Tasks, o \in Owners : CallStart(t, o, base_port + o - 1)
    \/ \E t \in Tasks, o \in Owners : CallStop(t, o)
    \/ \E t \in Tasks : CallStopAll(t)
    \/ \E t \in Tasks : SpawnOk(t)
    \/ \E t \in Tasks : SpawnFail(t)
    \/ \E t \in Tasks : WaitTermExit(t)
    \/ \E t \in Tasks : WaitTermTimeout(t)
    \/ \E t \in Tasks : WaitKillExit(t)
    \/ \E t \in Tasks : Poll(t)
    \/ \E p \in DOMAIN procs : ProcExit(p)

SpecAll == Init /\ [][NextAll]_vars

\* --------------------------------------------------- buffer and lifecycle
\* The manager's calls for a project whose output is streamed to one
\* subscriber: the server is running, or a stop_server has failed and left
\* its record in ERROR.  The calls are made one at a time: start_server as by
\* the start endpoint, with the project's port; stop_server as by the stop
\* endpoint, which goes on to StopEndpoint when it returned True;
\* stop_all_servers as at shutdown.
InitClear ==
    \E status \in {RUNNING, ERROR} : Streaming(status, TRUE, {1})

SeqStopAll == AllIdle /\ CallStopAll(1)

NextClear ==
    \/ \E project_id \in Projects : ReadLine("stdout", project_id)
    \/ \E project_id \in Projects : StopEndpoint(project_id)
    \/ \E e \in {"stdout", "stop"}, project_id \in Projects : SendDone(e, project_id)
    \/ \E ws \in Joiners : Closed(ws)
    \/ \E ws \in Joiners : Disconnect(ws)
    \/ \E project_id \in Projects : SeqStart(project_id, base_port)
    \/ \E project_id \in Projects : SeqStop(project_id)
    \/ SeqStopAll
    \/ SpawnOk(1)
    \/ SpawnFail(1)
    \/ WaitTermExit(1)
    \/ WaitTermTimeout(1)
    \/ WaitKillExit(1)
    \/ \E p \in DOMAIN procs : ProcExit(p)

SpecClear == InitClear /\ [][NextClear]_vars

\* A subscriber of a running server talks to its handler while the server's
\* output is broadcast to it and to a second subscriber.
InitChat == Streaming(RUNNING, TRUE, Sockets)

NextChat ==
    \/ \E ws \in Joiners, kind \in Inbound : ReceiveText(ws, kind)
    \/ \E ws \in Joiners : ReplySent(ws)
    \/ \E ws \in Joiners : Closed(ws)
    \/ \E ws \in Joiners : Disconnect(ws)
    \/ \E project_id \in Projects : ReadLine("stdout", project_id)
    \/ \E project_id \in Projects : SendDone("stdout", project_id)

SpecChat == InitChat /\ [][NextChat]_vars

\* Output, status and error messages are broadcast for a project while a
\* client comes and goes.
NextEvents ==
    \/ NextJoin
    \/ \E project_id \in Projects : ReadError("stdout", project_id)

SpecEvents == InitJoin /\ [][NextEvents]_vars

\* The two read loops of a running server read lines of every kind, with one
\* subscriber that may go away.
InitLines == Streaming(RUNNING, TRUE, Joiners)

NextLines ==
    \/ \E e \in {"stdout", "stderr"}, project_id \in Projects, line \in TextLines :
          ReadText(e, project_id, line)
    \/ \E e \in {"stdout", "stderr"}, project_id \in Projects : SendDone(e, project_id)
    \/ \E ws \in Joiners : Closed(ws)
    \/ \E ws \in Joiners : Disconnect(ws)

SpecLines == InitLines /\ [][NextLines]_vars

\* The stdout loop of a running server broadcasts to one subscriber while a
\* second client connects and leaves: no other broadcast_to_project call
\* overlaps, and only the handler of the second client changes the set.
InitSubs == Streaming(RUNNING, TRUE, Sockets \ Joiners)

NextSubs ==
    \/ \E project_id \in Projects : ReadLine("stdout", project_id)
    \/ \E project_id \in Projects : SendDone("stdout", project_id)
    \/ \E ws \in Joiners, project_id \in Projects : Connect(ws, project_id)
    \/ \E ws \in Joiners : StatusSent(ws)
    \/ \E ws \in Joiners : ReplaySent(ws)
    \/ \E ws \in Joiners : Closed(ws)
    \/ \E ws \in Joiners : Disconnect(ws)

SpecSubs == InitSubs /\ [][NextSubs]_vars

\* ------------------------------------------------------- start endpoint
\* POST /projects/{id}/dev-server/start of main.py, lines 378-514, for a
\* project nobody subscribes to.  A request is one coroutine; it is suspended
\* in install_dependencies (a subprocess) and inside start_server.

\* The request's messages (lines 422, 442, 448, 467).
Progress(n) == Msg("output", n, "start", "")

\* Lines 458-481: the port is taken from the allocator and start_server is
\* awaited with it; b and n are the broadcaster and the number of broadcasts
\* after the request's earlier ones in this segment.
StartCall(t, project_id, b, n) ==
    \E avail \in SUBSET ScanRange :
        LET a == allocate_port(Mgr, project_id, avail) IN
        IF a.ret = None
        THEN /\ SetMgr(a.m)
             /\ result' = NoResult
             /\ UNCHANGED <<tasks, ncalls, granted, swept>>
             /\ Respond(t, Request("done", project_id, "500"), b, n, stream_tasks)
        ELSE LET bs == BroadcastEntry(b, project_id, Progress(n + 1), broken)
                 tk == NewTask("start", project_id, a.ret)
             IN  /\ bs.pc = "done"
                 /\ ncalls' = ncalls + 1
                 /\ \E probe \in Probes(tk) : \E sig \in TermOutcomes(a.m, project_id) :
                       /\ AdvanceMgr(t, tk, StartEntry(a.m, project_id, a.ret, probe, tk.id, sig))
                       /\ UNCHANGED granted
                       /\ Served(t, tk, StartEntry(a.m, project_id, a.ret, probe, tk.id, sig),
                                 bs.b, n + 1)

\* A request arrives (lines 378-456): a server that is Running or Starting
\* is reported as it is; otherwise the dependencies are installed when
\* node_modules is missing, and the server is started.
StartRequest(t, project_id) ==
    /\ requests[t].pc = "idle"
    /\ \A u \in Tasks : u < t => requests[u].pc # "idle"
    /\ tasks[t].op = "idle"
    /\ IF get_server_status(Mgr, project_id).ret \in {RUNNING, STARTING}
       THEN /\ result' = NoResult
            /\ UNCHANGED <<servers, port_allocations, infos, procs, tasks, ncalls,
                           granted, swept>>
            /\ Respond(t, Request("done", project_id, "200"), Bc, nmsg, stream_tasks)
       ELSE \E node_modules \in BOOLEAN :
              IF node_modules
              THEN StartCall(t, project_id, Bc, nmsg)
              ELSE LET bs == BroadcastEntry(Bc, project_id, Progress(nmsg + 1), broken) IN
                   /\ bs.pc = "done"
                   /\ result' = NoResult
                   /\ UNCHANGED <<servers, port_allocations, infos, procs, tasks,
                                  ncalls, granted, swept>>
                   /\ Respond(t, Request("install", project_id, "none"), bs.b,
                              nmsg + 1, stream_tasks)

\* install_dependencies returns (lines 440-456).
InstallDone(t, success) ==
    /\ requests[t].pc = "install"
    /\ tasks[t].op = "idle"
    /\ LET project_id == requests[t].project_id
           bs == BroadcastEntry(Bc, project_id, Progress(nmsg + 1), broken)
       IN  /\ bs.pc = "done"
           /\ IF success
              THEN StartCall(t, project_id, bs.b, nmsg + 1)
              ELSE /\ result' = NoResult
                   /\ UNCHANGED <<servers, port_allocations, infos, procs, tasks,
                                  ncalls, granted, swept>>
                   /\ Respond(t, Request("done", project_id, "500"), bs.b,
                              nmsg + 1, stream_tasks)

NextStart ==
    \/ \E t \in Tasks, project_id \in Projects : StartRequest(t, project_id)
    \/ \E t \in Tasks, success \in BOOLEAN : InstallDone(t, success)
    \/ \E t \in Tasks : SpawnOk(t)
    \/ \E t \in Tasks : SpawnFail(t)
    \/ \E p \in 1..Len(procs) : ProcExit(p)

SpecStart == Init /\ [][NextStart]_vars

TypeOK ==
    /\ DOMAIN servers \subseteq Owners
    /\ \A o \in DOMAIN servers : servers[o] \in 1..Len(infos)
    /\ \A i \in 1..Len(infos) : infos[i].status \in ServerStatus

\* ------------------------------------------------------------- properties
Status(o) == IF o \in DOMAIN servers THEN infos[servers[o]].status ELSE STOPPED

AliveProcs(o) == {p \in DOMAIN procs : procs[p].owner = o /\ procs[p].alive}

\* The step is a call of start_server(o, ...): the call either returned in its
\* first segment or left a new task behind.
StartCallStep(o) ==
    /\ ncalls' = ncalls + 1
    /\ \/ result'.op = "start" /\ result'.project_id = o
       \/ \E t \in Tasks : /\ tasks'[t].op = "start" /\ tasks'[t].id = ncalls'
                           /\ tasks'[t].project_id = o

\* C1: under every interleaving of start_server and stop_server calls on one
\* owner, no two child processes spawned for the owner are alive at once and no
\* process is signalled by two different stop_server calls.
C1_NoDoubleSpawnNoDoubleKill ==
    /\ \A o \in Owners : Cardinality(AliveProcs(o)) <= 1
    /\ \A p \in DOMAIN procs : procs[p].stops <= 1

\* C2: start_server on an owner whose record is RUNNING returns that record
\* (same port, same pid), changes neither servers nor port_allocations nor the
\* record, and spawns nothing: no process is created and no spawn is pending.
C2_StartOnRunningIsNoOp ==
    [][\A o \in Owners :
         (StartCallStep(o) /\ Status(o) = RUNNING) =>
            /\ result' = [op |-> "start", project_id |-> o, ret |-> "info",
                          info |-> servers[o], port |-> None, sync |-> TRUE]
            /\ UNCHANGED <<servers, port_allocations, infos, procs, tasks>>]_vars

C2_Witness ==
    /\ result.op = "start" /\ result.sync /\ result.ret = "info"
    /\ infos[result.info].status = RUNNING
    /\ infos[result.info].pid # None
    /\ Len(procs) = 1

\* C3: start_server on an owner whose record is STARTING (the first call is
\* suspended in the spawn) returns that record unchanged and spawns nothing.
C3_StartOnStartingIsNoOp ==
    [][\A o \in Owners :
         (StartCallStep(o) /\ Status(o) = STARTING) =>
            /\ result' = [op |-> "start", project_id |-> o, ret |-> "info",
                          info |-> servers[o], port |-> None, sync |-> TRUE]
            /\ UNCHANGED <<servers, port_allocations, infos, procs, tasks>>]_vars

C3_Witness ==
    /\ result.op = "start" /\ result.sync /\ result.ret = "info"
    /\ infos[result.info].status = STARTING
    /\ \E t \in Tasks : tasks[t].pc = "spawn" /\ tasks[t].info = result.info
    /\ Len(procs) = 0

\* C4: every stop_server that got past the no-record check ends with the
\* owner's record deleted from servers and the record's port absent from
\* port_allocations, also when terminate, kill or wait raised.
C4_StopAlwaysCleansUp ==
    result.op = "stop" =>
        /\ result.project_id \notin DOMAIN servers
        /\ result.port # None => result.port \notin DOMAIN port_allocations

Leases(o) == {p \in DOMAIN port_allocations : port_allocations[p] = o}

\* C5: allocate_port(owner) called twice with no release_port in between
\* returns the same port both times and leaves exactly one lease for the owner,
\* with or without a server record for the owner.  Stated for the calls most
\* favourable to it: those whose probe finds every port free.
C5_AllocateTwiceSamePort ==
    \A i, j \in 1..Len(granted) :
        (i < j /\ granted[i].project_id = granted[j].project_id
               /\ granted[i].port # None
               /\ granted[i].all_free /\ granted[j].all_free) =>
            /\ granted[j].port = granted[i].port
            /\ Cardinality(Leases(granted[i].project_id)) = 1

\* C6: with every probe answering free, max_attempts distinct owners get
\* pairwise distinct ports of base_port .. base_port + max_attempts - 1, and
\* one more distinct owner gets no port and no lease.
DistinctOwnersAllFree ==
    /\ \A i, j \in 1..Len(granted) :
          i # j => granted[i].project_id # granted[j].project_id
    /\ \A i \in 1..Len(granted) : granted[i].all_free

C6_DistinctPortsThenNone ==
    DistinctOwnersAllFree =>
        /\ \A i \in 1..Len(granted) :
              IF i <= max_attempts
              THEN /\ granted[i].port \in ScanRange
                   /\ port_allocations[granted[i].port] = granted[i].project_id
              ELSE /\ granted[i].port = None
                   /\ Leases(granted[i].project_id) = {}
        /\ \A i, j \in 1..Len(granted) :
              (i < j /\ j <= max_attempts) => granted[i].port # granted[j].port
        /\ DOMAIN port_allocations \subseteq ScanRange

C6_Witness ==
    /\ DistinctOwnersAllFree
    /\ Len(granted) = max_attempts + 1
    /\ granted[max_attempts + 1].port = None
    /\ Cardinality(DOMAIN port_allocations) = max_attempts

\* allocate_port(o2) can return port: some answer of the probe makes it.
CanAllocate(o2, port) ==
    \E avail \in SUBSET ScanRange : allocate_port(Mgr, o2, avail).ret = port

StartedRunning ==
    (result.op = "start" /\ result.ret = "info" /\ ~result.sync) =>
        /\ Status(result.project_id) = RUNNING
        /\ servers[result.project_id] = result.info
        /\ infos[result.info].pid # None
        /\ infos[result.info].process # None

\* stop_server returned True for a record that held a process.
StoppedProcess ==
    /\ result.op = "stop" /\ result.ret = "True" /\ result.info # 0
    /\ infos[result.info].process # None

StoppedAndReleased ==
    StoppedProcess =>
        /\ Status(result.project_id) = STOPPED
        /\ result.project_id \notin DOMAIN servers
        /\ result.port \notin DOMAIN port_allocations

\* C7 as claimed: after start_server(owner, port=p) succeeds the owner is
\* RUNNING with a pid; after the following stop_server(owner) returns True the
\* owner has no record, p is not leased, and allocate_port for a different
\* owner can return p.
C7_StopFreesPortForAllocate ==
    /\ StartedRunning
    /\ StoppedAndReleased
    /\ StoppedProcess =>
          \A o2 \in Owners \ {result.project_id} :
              o2 \notin DOMAIN servers => CanAllocate(o2, result.port)

\* C7 as amended: the same, with allocate_port able to return p when p lies in
\* the range it scans; a port outside the range is free again for a
\* start_server(other, port=p), which takes any port that is not leased.
C7_StopFreesPortInScanRange ==
    /\ StartedRunning
    /\ StoppedAndReleased
    /\ (StoppedProcess /\ result.port \in ScanRange) =>
          \A o2 \in Owners \ {result.project_id} :
              o2 \notin DOMAIN servers => CanAllocate(o2, result.port)

C7_Witness ==
    /\ StoppedProcess /\ ~result.sync
    /\ result.port \in ScanRange
    /\ Len(procs) = 1 /\ ~procs[1].alive
    /\ \E o2 \in Owners \ {result.project_id} :
          o2 \notin DOMAIN servers /\ CanAllocate(o2, result.port)

\* The step is a call of stop_server(o).
StopCallStep(o) ==
    /\ ncalls' = ncalls + 1
    /\ \/ result'.op = "stop" /\ result'.project_id = o
       \/ \E t \in Tasks : /\ tasks'[t].op = "stop" /\ tasks'[t].id = ncalls'
                           /\ tasks'[t].project_id = o

\* C8: stop_server on an owner with no record returns True, leaves servers
\* and port_allocations unchanged for every owner and port, and signals no
\* process.
C8_StopWithoutRecordIsNoOp ==
    [][\A o \in Owners :
         (StopCallStep(o) /\ o \notin DOMAIN servers) =>
            /\ result' = [op |-> "stop", project_id |-> o, ret |-> "True",
                          info |-> 0, port |-> None, sync |-> TRUE]
            /\ UNCHANGED <<servers, port_allocations, infos, procs, tasks>>]_vars

C8_Witness ==
    /\ result.op = "stop" /\ result.sync /\ result.ret = "True" /\ result.info = 0
    /\ result.project_id \notin DOMAIN servers
    /\ Leases(result.project_id) # {}
    /\ \E p \in DOMAIN procs : procs[p].alive

\* The task is inside stop_server (its own, or the one start_server awaits).
InStop(t) == tasks[t].pc \in {"poll", "wait_term", "wait_kill"}

\* stop_server returned True after its poll loop force-cleared the record:
\* the record is not marked stopped, as the cleanup of lines 220-228 would.
ForceCleared ==
    /\ result.op = "stop" /\ result.ret = "True" /\ result.info # 0
    /\ infos[result.info].status # STOPPED

\* C9: every stop_server call returns, given that a killed process exits: a
\* call that found the owner STOPPING sleeps at most StopPolls times and, when
\* it gives up, has deleted the record and released its port; a call on the
\* main path returns after the timeout of the graceful wait and the kill.
C9_StopReturns ==
    /\ [](\A t \in Tasks : tasks[t].polls < StopPolls)
    /\ [](ForceCleared =>
            /\ result.project_id \notin DOMAIN servers
            /\ result.port \notin DOMAIN port_allocations)
    /\ \A t \in Tasks : InStop(t) ~> ~InStop(t)

C9_Witness ==
    /\ ForceCleared
    /\ \E t \in Tasks : tasks[t].pc = "wait_kill" /\ tasks[t].info = result.info

\* C10: when create_subprocess_exec raises, the owner's record is left in
\* servers with status ERROR and the message, the port of the call is not in
\* port_allocations, the owner has no process, and start_server raises.
C10_SpawnFailureLeavesError ==
    (result.op = "start" /\ result.ret = "raise" /\ result.info # 0) =>
        /\ result.project_id \in DOMAIN servers
        /\ servers[result.project_id] = result.info
        /\ infos[result.info].status = ERROR
        /\ infos[result.info].error_message
        /\ infos[result.info].process = None
        /\ result.port \notin DOMAIN port_allocations
        /\ AliveProcs(result.project_id) = {}

\* start_server raised line 127: called without a port, no port was found.
PortExhausted(r) ==
    r.op = "start" /\ r.ret = "raise" /\ r.info = 0 /\ r.port = None

\* C11: when start_server is called without a port and no free port is found,
\* the call raises, the owner has no record afterwards, no lease was added, no
\* record was created and no process was spawned.
C11_PortExhaustedLeavesNothing ==
    [][PortExhausted(result') =>
          /\ result'.project_id \notin DOMAIN servers'
          /\ \A p \in DOMAIN port_allocations' :
                p \in DOMAIN port_allocations /\ port_allocations'[p] = port_allocations[p]
          /\ Len(infos') = Len(infos)
          /\ procs' = procs
          /\ \A t \in Tasks : tasks'[t].op = "idle" \/ tasks'[t] = tasks[t]]_vars

C11_Witness ==
    /\ PortExhausted(result)
    /\ ScanRange \subseteq DOMAIN port_allocations
    /\ Leases(result.project_id) = {}

\* The status of every DevServerInfo object created so far; a record that
\* does not exist yet stands for Stopped.
StatusOf(fs, i) == IF i <= Len(fs) THEN fs[i].status ELSE STOPPED

\* The edges of the state machine, and Running -> Stopped for a stop_server
\* that goes through Stopping to Stopped without suspending.
Transitions ==
    {<<STOPPED, STARTING>>, <<STARTING, RUNNING>>, <<RUNNING, STOPPING>>,
     <<STOPPING, STOPPED>>, <<STARTING, ERROR>>, <<RUNNING, STOPPED>>}

\* C12: the status of a record changes only along Stopped -> Starting ->
\* Running -> Stopping -> Stopped and Starting -> Error: no step takes a record
\* from Starting to Stopping, from Stopping to Error or from Error to Stopping.
C12_StatusTransitions ==
    [][\A i \in 1..Len(infos') :
          \/ StatusOf(infos', i) = StatusOf(infos, i)
          \/ <<StatusOf(infos, i), StatusOf(infos', i)>> \in Transitions]_vars

\* A start_server ran while the stop_all_servers call was in progress: one was
\* in flight when it was called or is now, or a record was created since.
StartRanMeanwhile ==
    \/ swept.started
    \/ Len(infos) > swept.infos0
    \/ \E t \in Tasks : tasks[t].op = "start"

\* C20: stop_all_servers calls stop_server for every owner that servers
\* tracked when it was called, also after a stop_server that failed: it
\* returns with its list exhausted and never raises; when no start_server ran
\* meanwhile and no stop_server failed, servers is empty when it returns.
C20_StopAllStopsEveryOwner ==
    result.op = "stop_all" =>
        /\ result.ret = "None"
        /\ swept.ended /\ swept.rest = << >>
        /\ (~swept.failed /\ ~StartRanMeanwhile) => servers = << >>

\* stop_all_servers returned after a stop_server it awaited had failed for the
\* first of two owners, and the second owner's record is gone.
C20_Witness ==
    /\ result.op = "stop_all" /\ ~result.sync
    /\ Len(swept.project_ids) = 2
    /\ swept.failed
    /\ swept.project_ids[1] \in DOMAIN servers
    /\ swept.project_ids[2] \notin DOMAIN servers

\* The last k entries of a sequence.
Last(k, seq) == SubSeq(seq, Len(seq) - k + 1, Len(seq))

\* The smaller of two numbers.
Least(a, b) == IF a <= b THEN a ELSE b

\* C13: the log buffer of a project never holds more than MAX_BUFFER_SIZE
\* entries, and it is the last min(n, MAX_BUFFER_SIZE) of the n output
\* messages broadcast for the project since the buffer was last deleted, in
\* the order they were appended.
C13_BufferHoldsLastEntries ==
    \A project_id \in Projects :
        IF project_id \in DOMAIN log_buffers
        THEN LET buffer == lists[log_buffers[project_id]]
                 n == Len(appended[project_id])
             IN  /\ Len(buffer) <= MAX_BUFFER_SIZE
                 /\ buffer = Last(Least(n, MAX_BUFFER_SIZE), appended[project_id])
        ELSE appended[project_id] = << >>

\* An output message was appended to a full buffer and the oldest entry is
\* gone.
C13_Witness ==
    /\ 1 \in DOMAIN log_buffers
    /\ Len(appended[1]) > MAX_BUFFER_SIZE
    /\ Len(lists[log_buffers[1]]) = MAX_BUFFER_SIZE
    /\ lists[log_buffers[1]][1] = appended[1][Len(appended[1]) - MAX_BUFFER_SIZE + 1]

\* The stop endpoint has deleted a buffer that held its output message.
C13_ClearedWitness ==
    /\ emit["stop"].pc = "done"
    /\ 1 \notin DOMAIN log_buffers
    /\ \E list \in 1..Len(lists) : lists[list] # << >>

\* The handler of socket ws has sent all it sends before it waits for the
\* client, to a client that is still there, and no broadcast_to_project call
\* was in progress or made since the socket connected.
QuietReplay(ws) ==
    /\ conns[ws].pc = "recv"
    /\ ws \notin broken
    /\ conns[ws].calm
    /\ nmsg = conns[ws].calls

\* C14: a subscriber that connects after k <= MAX_BUFFER_SIZE output messages
\* were appended for the project, the buffer not deleted and nothing
\* broadcast meanwhile, is sent the status and then exactly those k messages
\* in their order, whatever the status of the project's record.
C14_ReplayWhateverStatus ==
    \A ws \in Joiners :
        (/\ QuietReplay(ws)
         /\ emit["stop"].pc = "off"
         /\ Len(appended[conns[ws].project_id]) <= MAX_BUFFER_SIZE)
        => inbox[ws] = <<StatusMsg(Mgr, conns[ws].server_info)>>
                       \o appended[conns[ws].project_id]

\* The output messages a socket was sent, in the order they were sent.
Outputs(ws) == SelectSeq(inbox[ws], LAMBDA message : message.type = "output")

\* C15: a subscriber of a running server whose replay overlaps with appends
\* is sent every output message once and in the order of the appends (n
\* numbers them): none twice, none before an earlier one, and when nothing is
\* in progress any more none is missing.
C15_EveryOutputOnceInOrder ==
    \A ws \in Joiners :
        (/\ conns[ws].pc \in {"status", "replay", "recv"}
         /\ ws \notin broken
         /\ conns[ws].server_info # 0
         /\ infos[conns[ws].server_info].status = RUNNING)
        => /\ \A i, j \in 1..Len(Outputs(ws)) :
                  i < j => Outputs(ws)[i].n < Outputs(ws)[j].n
           /\ (/\ conns[ws].pc = "recv"
               /\ \A e \in Emitters : emit[e].pc # "send"
               /\ Len(appended[conns[ws].project_id]) <= MAX_BUFFER_SIZE)
              => Outputs(ws) = appended[conns[ws].project_id]

\* The messages a socket was sent.
Received(ws) == {inbox[ws][i] : i \in 1..Len(inbox[ws])}

\* C16: a broadcast_to_project call in which a send_json failed returns
\* normally; every socket that was in the project's set when the call began
\* and whose send_json did not fail was sent the message; the call removes
\* from the set the sockets whose send_json failed and no other; and the
\* project's entry is deleted iff the set is empty then.
C16_FailedDeliveryRemovesOnlyThatSubscriber ==
    \A k \in 1..Len(delivered) :
        LET call == delivered[k].call IN
        call.disconnected # {} =>
            /\ delivered[k].ret = "return"
            /\ \A ws \in call.at_start \ call.disconnected : call.message \in Received(ws)
            /\ sets[call.set] = call.at_start \ call.disconnected
            /\ (sets[call.set] = {}) <=> (\A project_id \in Projects :
                                             project_id \notin DOMAIN active_websockets)

\* C17: when broadcast_to_project calls of one project overlap, every
\* socket is sent their messages in the order in which the calls were made
\* (n numbers them), the order in which the output messages were appended to
\* the buffer.
C17_DeliveredInCallOrder ==
    \A ws \in Sockets :
        \A i, j \in 1..Len(inbox[ws]) :
            (i < j /\ inbox[ws][i].n > 0 /\ inbox[ws][j].n > 0)
            => inbox[ws][i].n < inbox[ws][j].n

\* The second socket was sent the message of the second call while the first
\* call is still suspended in its first send_json, the second call having
\* found the first socket gone: no order in which suspended coroutines go on
\* avoids it.
SecondCallOvertakes ==
    /\ 1 \in broken
    /\ Len(inbox[1]) = 1
    /\ emit["stdout"].pc = "send"
    /\ emit["stdout"].call.pos = 1
    /\ emit["stdout"].call.message.n = 1
    /\ inbox[2] # << >>
    /\ inbox[2][1].n = 2

\* The two read loops of stream_process_to_websockets.
Loops == {"stdout", "stderr"}

\* The step in which readline raises in loop e.
ReadErrorStep(e) ==
    /\ emit[e].pc = "read"
    /\ \/ emit'[e].pc = "send" /\ emit'[e].phase = "error"
       \/ emit'[e].pc = "done"

\* The loop e is over: in its error broadcast or returned.
LoopOver(fr) == fr.phase = "error" \/ fr.pc = "done"

C18_ReadLoopsEndAtEof ==
    (~procs[PumpedProcess].alive) ~> (\A e \in Loops : emit[e].pc = "done")

\* The project has no buffered output: no list, or an empty one.
BufferCleared(b, project_id) ==
    \/ project_id \notin DOMAIN b.log_buffers
    \/ b.lists[b.log_buffers[project_id]] = << >>

\* The step is one of a call of the manager.
ManagerStep == tasks' # tasks \/ ncalls' # ncalls

\* A record of the project has been stopped by stop_server.
ServerStopped(fs, project_id) ==
    \E i \in 1..Len(fs) : fs[i].project_id = project_id /\ fs[i].status = STOPPED

\* C21: when the handler of a project's last subscriber leaves, the project's
\* entry in active_websockets is deleted and its buffer keeps its contents;
\* and the buffer is cleared on every path that stops the project's server:
\* when the stop endpoint has returned, and when a start_server or a
\* stop_all_servers call returns after a stop_server stopped the server.
C21_BufferClearedOnEveryStop ==
    [][\A project_id \in Projects :
          /\ \A ws \in Sockets :
                (conns[ws].pc # "closed" /\ conns'[ws].pc = "closed"
                    /\ conns[ws].project_id = project_id) =>
                    /\ log_buffers' = log_buffers /\ lists' = lists
                    /\ (\A set \in 1..Len(sets') : sets'[set] = {})
                          => project_id \notin DOMAIN active_websockets'
          /\ (emit["stop"].pc # "done" /\ emit'["stop"].pc = "done"
                 /\ delivered'[Len(delivered')].ret = "return") =>
                    project_id \notin DOMAIN log_buffers'
          /\ (ManagerStep /\ result'.op \in {"start", "stop_all"}
                 /\ ServerStopped(infos', project_id)) =>
                    BufferCleared(Bc, project_id)']_vars

\* The port is leased to another owner than o.
LeasedToOther(port, o) ==
    port \in DOMAIN port_allocations /\ port_allocations[port] # o

\* A step of a start_server(o, port) call up to the resolution of its port
\* (line 123): the call itself, when the owner's record does not answer it at
\* lines 113-118, or the end of a wait inside the stop_server of line 121.
\* The calls are made one at a time, so the coroutine is the first.
ResolvingStart(o, port) ==
    \/ /\ ncalls' = ncalls + 1
       /\ \/ /\ tasks'[1].op = "start" /\ tasks'[1].id = ncalls'
             /\ tasks'[1].project_id = o /\ tasks'[1].port = port
          \/ /\ result'.op = "start" /\ result'.project_id = o
             /\ result'.port = port
    \/ /\ tasks[1].op = "start" /\ InStop(1)
       /\ tasks[1].project_id = o /\ tasks[1].port = port
       /\ tasks' # tasks

\* C22: start_server with a port that another owner holds raises without
\* creating a record or a process and leaves the other owner's lease: every
\* step of the call up to line 133 keeps the lease and creates nothing, and
\* ends in the exception unless it is still inside the stop_server of line
\* 121.
C22_ForeignPortIsRefused ==
    [][\A o \in Owners, port \in ScanRange \cup {ExtraPort} :
          (LeasedToOther(port, o) /\ ResolvingStart(o, port)) =>
              /\ port \in DOMAIN port_allocations'
              /\ port_allocations'[port] = port_allocations[port]
              /\ Len(infos') = Len(infos)
              /\ Len(procs') = Len(procs)
              /\ \/ result'.op = "start" /\ result'.ret = "raise"
                 \/ tasks'[1].op = "start" /\ tasks'[1].pc \in {"poll", "wait_term", "wait_kill"}]_vars

\* C23: release_port(port) leaves the port without a lease whoever held it
\* and changes nothing else; on a port without a lease it changes nothing,
\* and a second release_port(port) changes nothing after the first.
C23_ReleaseIsIdempotent ==
    \A port \in LeasePorts :
        LET once == release_port(Mgr, port) IN
        /\ port \notin DOMAIN once.port_allocations
        /\ once = [Mgr EXCEPT !.port_allocations = Del(@, port)]
        /\ port \notin DOMAIN port_allocations => once = Mgr
        /\ release_port(once, port) = once
        /\ (result.op = "release_port" /\ result.port = port)
              => port \notin DOMAIN port_allocations

\* release_port was called on a port that an owner held, and another port
\* is still leased.
C23_Witness ==
    /\ result.op = "release_port"
    /\ result.project_id # 0
    /\ result.port \notin DOMAIN port_allocations
    /\ port_allocations # << >>

\* release_port was called on a port that nobody held.
C23_FreeWitness ==
    /\ result.op = "release_port"
    /\ result.project_id = 0
    /\ port_allocations # << >>

\* ---------------------------------------------------------------------
\* C24: each ping a handler receives is answered with exactly one pong on
\* the socket it came in on and nothing else is sent for it; a message that
\* cannot be handled is answered with one error message on that socket, the
\* handler stays subscribed and, the client still there, goes back to
\* receive_text; any other message is answered with nothing.
Replies(ws, type) ==
    Cardinality({i \in 1..Len(inbox[ws]) : /\ inbox[ws][i].type = type
                                           /\ inbox[ws][i].src = "ws"})

Subscribed(ws) ==
    /\ conns[ws].project_id \in DOMAIN active_websockets
    /\ ws \in sets[active_websockets[conns[ws].project_id]]

C24_PingIsAnsweredAndErrorKeepsChannel ==
    [][\A ws \in Sockets :
          /\ conns'[ws].inbound = conns[ws].inbound + 1 =>
                /\ \A other \in Sockets \ {ws} : inbox'[other] = inbox[other]
                /\ inbox'[ws] =
                      IF conns'[ws].pings = conns[ws].pings + 1
                      THEN Append(inbox[ws], Msg("pong", 0, "ws", ""))
                      ELSE IF conns'[ws].bad = conns[ws].bad + 1
                      THEN Append(inbox[ws], Msg("error", 0, "ws", ""))
                      ELSE inbox[ws]
                /\ conns'[ws].pc # "closed"
                /\ Subscribed(ws) => Subscribed(ws)'
          /\ (conns[ws].pc \in {"pong", "err"} /\ conns'[ws].pc # conns[ws].pc) =>
                /\ inbox' = inbox
                /\ ws \notin broken => conns'[ws].pc = "recv" /\ (Subscribed(ws) => Subscribed(ws)')
          /\ Replies(ws, "pong")' = conns'[ws].pings
          /\ Replies(ws, "error")' = conns'[ws].bad]_vars

\* A handler answered a ping and a message it could not handle, each reply
\* was sent, and it is in receive_text again, still subscribed.
C24_Witness ==
    \E ws \in Sockets :
       /\ conns[ws].pings = 1
       /\ conns[ws].bad = 1
       /\ conns[ws].pc = "recv"
       /\ ws \notin broken
       /\ Subscribed(ws)
       /\ Replies(ws, "pong") = 1
       /\ Replies(ws, "error") = 1

\* ---------------------------------------------------------------------
\* C25: a stop_server call that stops a process sends terminate() before
\* anything else; kill() is sent only by a call whose wait_for of line 210
\* timed out, to the process it sent terminate() to; and the call that sent
\* kill() goes on only when the process has exited, and then releases the
\* port, deletes the record and marks it STOPPED.
C25_TerminateThenKillThenWait ==
    [][/\ \A t \in Tasks :
            (tasks'[t].pc = "wait_term" /\ tasks'[t] # tasks[t]) =>
                LET process == infos'[tasks'[t].info].process IN
                /\ process \in DOMAIN procs
                /\ procs'[process].stops = procs[process].stops + 1
                /\ procs'[process].killed = procs[process].killed
       /\ \A process \in DOMAIN procs :
            (procs'[process].killed /\ ~procs[process].killed) =>
                /\ procs[process].stops >= 1
                /\ \E t \in Tasks : /\ tasks[t].pc = "wait_term"
                                     /\ infos[tasks[t].info].process = process
                                     /\ tasks'[t] = [tasks[t] EXCEPT !.pc = "wait_kill"]
       /\ \A t \in Tasks :
            (tasks[t].pc = "wait_kill" /\ tasks'[t] # tasks[t]) =>
                LET tk == tasks[t] IN
                /\ ~procs[infos[tk.info].process].alive
                /\ procs[infos[tk.info].process].killed
                /\ infos'[tk.info].status = STOPPED
                /\ tk.project_id \in DOMAIN servers' => servers'[tk.project_id] # tk.info
                /\ tk.port_to_release \in DOMAIN port_allocations' =>
                      /\ tk.op = "start"
                      /\ tasks'[t].pc = "spawn"
                      /\ tasks'[t].port = tk.port_to_release]_vars

\* A stop_server call returned True after it sent terminate(), timed out,
\* sent kill() and saw the process exit.
C25_Witness ==
    /\ result.op = "stop"
    /\ result.ret = "True"
    /\ result.info # 0
    /\ infos[result.info].process # None
    /\ procs[infos[result.info].process].killed
    /\ procs[infos[result.info].process].stops = 1
    /\ ~procs[infos[result.info].process].alive
    /\ result.project_id \notin DOMAIN servers

\* ---------------------------------------------------------------------
\* C26: wherever terminate() or kill() can raise ProcessLookupError, the
\* stop_server call that gets it releases the record's port, deletes the
\* record, marks it STOPPED and returns True.
StoppedCleanly(r, project_id, info) ==
    /\ r.pc = "done"
    /\ r.ret = "True"
    /\ project_id \notin DOMAIN r.m.servers
    /\ infos[info].port \notin DOMAIN r.m.port_allocations
    /\ r.m.infos[info].status = STOPPED

C26_LookupErrorStillStops ==
    /\ \A project_id \in DOMAIN servers :
          LET info == servers[project_id] IN
          (/\ infos[info].status \notin {STOPPED, STOPPING}
           /\ infos[info].process # None
           /\ "lookup" \in SignalOutcomes(Mgr, infos[info].process)) =>
              StoppedCleanly(StopEntry(Mgr, project_id, 0, "lookup"), project_id, info)
    /\ \A t \in Tasks :
          (/\ tasks[t].pc = "wait_term"
           /\ "lookup" \in SignalOutcomes(Mgr, infos[tasks[t].info].process)) =>
              StoppedCleanly(StopTimeout(Mgr, tasks[t].project_id, tasks[t].id,
                                         tasks[t].info, tasks[t].port_to_release,
                                         "lookup"),
                             tasks[t].project_id, tasks[t].info)
    /\ (/\ result.op = "stop"
        /\ result.sync
        /\ result.info # 0
        /\ result.ret = "True"
        /\ infos[result.info].process # None) =>
           /\ result.project_id \notin DOMAIN servers
           /\ result.port \notin DOMAIN port_allocations
           /\ infos[result.info].status = STOPPED

\* A stop_server call whose terminate() raised ProcessLookupError has
\* returned True: the process had exited by itself and was never signalled.
C26_Witness ==
    /\ result.op = "stop"
    /\ result.sync
    /\ result.ret = "True"
    /\ result.info # 0
    /\ infos[result.info].process # None
    /\ procs[infos[result.info].process].stops = 0
    /\ ~procs[infos[result.info].process].alive
    /\ result.project_id \notin DOMAIN servers
    /\ result.port \notin DOMAIN port_allocations

\* A stop_server call is in wait_for after terminate() and the process has
\* exited: kill(), were the timeout to fire now, raises ProcessLookupError.
C26_KillWitness ==
    \E t \in Tasks : /\ tasks[t].pc = "wait_term"
                     /\ ~procs[infos[tasks[t].info].process].alive

\* ---------------------------------------------------------------------
\* C27: broadcast_to_project puts a message at the end of the project's
\* buffer exactly when its type is output, subscribers or not; a status or an
\* error message leaves log_buffers and every list as they are, at the call
\* and when a send_json returns, and is sent to the subscribers; nothing but
\* output messages is ever in a buffer.
EventTypes == {"output", "status", "error"}

Buffered(b, project_id) ==
    IF project_id \in DOMAIN b.log_buffers THEN b.lists[b.log_buffers[project_id]] ELSE << >>

Subscribers(project_id) ==
    IF project_id \in DOMAIN active_websockets THEN sets[active_websockets[project_id]] ELSE {}

C27_BufferedIffOutput ==
    /\ \A project_id \in Projects, type \in EventTypes :
          LET message == Msg(type, nmsg + 1, "stdout", "")
              bs == BroadcastEntry(Bc, project_id, message, broken)
          IN  /\ type = "output" =>
                    /\ Buffered(bs.b, project_id) # << >>
                    /\ Buffered(bs.b, project_id)[Len(Buffered(bs.b, project_id))] = message
                    /\ Buffered(bs.b, project_id) =
                          LastEntries(Append(Buffered(Bc, project_id), message))
              /\ type # "output" =>
                    /\ bs.b.log_buffers = log_buffers
                    /\ bs.b.lists = lists
              /\ \A ws \in Subscribers(project_id) \ broken :
                    ws = Min(Subscribers(project_id) \ broken) =>
                        bs.b.inbox[ws] = Append(inbox[ws], message)
    /\ \A e \in Emitters, project_id \in Projects :
          emit[e].pc = "send" =>
            LET bs == BroadcastResume(Bc, project_id, emit[e].call, broken) IN
            /\ bs.b.log_buffers = log_buffers
            /\ bs.b.lists = lists
    /\ \A l \in DOMAIN lists : \A i \in DOMAIN lists[l] : lists[l][i].type = "output"
    /\ \A i \in DOMAIN delivered :
          LET message == delivered[i].call.message IN
          message.type # "output" =>
              \A l \in DOMAIN lists : \A k \in DOMAIN lists[l] : lists[l][k] # message

\* An output message was broadcast with no subscriber and is in the buffer.
C27_Witness ==
    /\ active_websockets = << >>
    /\ Len(delivered) = 1
    /\ delivered[1].call.message.type = "output"
    /\ delivered[1].call.at_start = {}
    /\ Buffered(Bc, 1) # << >>
    /\ Buffered(Bc, 1)[Len(Buffered(Bc, 1))] = delivered[1].call.message

\* A status message and an error message were sent to a subscriber, and the
\* buffer holds an output message only.
C27_DeliveredWitness ==
    \E ws \in Sockets :
       /\ \E i \in DOMAIN inbox[ws] : inbox[ws][i].type = "error" /\ inbox[ws][i].n > 0
       /\ Len(Buffered(Bc, 1)) = 1

C27_StatusWitness ==
    \E ws \in Sockets :
       /\ \E i \in DOMAIN inbox[ws] : inbox[ws][i].type = "status" /\ inbox[ws][i].n > 0
       /\ Len(Buffered(Bc, 1)) = 1

\* ---------------------------------------------------------------------
\* C28: the output messages a read loop has broadcast are, in the order of
\* the calls, the lines it has read, decoded and without their trailing
\* whitespace, those that are empty then left out; each carries is_stderr of
\* its stream.
RECURSIVE Texts(_)
Texts(fed) ==
    IF fed = << >> THEN << >>
    ELSE LET text == rstrip(decode(fed[1])) IN
         (IF text = << >> THEN << >> ELSE <<text>>) \o Texts(Tail(fed))

FromLoop(e, message) == message.src = e

Events(e, project_id) == SelectSeq(appended[project_id], LAMBDA message : FromLoop(e, message))

C28_OneOutputPerLineInOrder ==
    \A e \in {"stdout", "stderr"}, project_id \in Projects :
       LET events == Events(e, project_id) IN
       /\ [i \in DOMAIN events |-> events[i].line] = Texts(emit[e].fed)
       /\ \A i \in DOMAIN events :
             /\ events[i].type = "output"
             /\ events[i].is_stderr = (e = "stderr")
             /\ events[i].line # << >>
             /\ events[i].line[Len(events[i].line)] \notin Whitespace
             /\ \A k \in DOMAIN events : i < k => events[i].n < events[k].n
       /\ \A ws \in Sockets : \A i \in DOMAIN inbox[ws] :
             (inbox[ws][i].src = e /\ inbox[ws][i].type = "output") =>
                 \E k \in DOMAIN events : events[k] = inbox[ws][i]

\* The stderr loop has read a line with blanks around its text, an empty
\* line and a line with an invalid byte and has broadcast two messages.
C28_Witness ==
    /\ emit["stderr"].fed = << <<" ", "a", " ", "\n">>, <<"\n">>, <<"x80", "\n">> >>
    /\ Len(Events("stderr", 1)) = 2
    /\ Events("stderr", 1)[1].line = <<" ", "a">>
    /\ Events("stderr", 1)[2].line = <<"ufffd">>
    /\ Events("stderr", 1)[1].is_stderr
    /\ \E i \in DOMAIN inbox[1] : inbox[1][i] = Events("stderr", 1)[1]

\* ---------------------------------------------------------------------
\* C29: get_server_status returns STOPPED when the owner has no record and
\* the status of the record otherwise, which is never STOPPED; a call of
\* get_server_status, get_server_info or is_running leaves servers,
\* port_allocations and the records as they were.
C29_GettersReadOnly ==
    [][result'.op \in Getters =>
          LET o == result'.project_id IN
          /\ servers' = servers
          /\ port_allocations' = port_allocations
          /\ infos' = infos
          /\ result'.op = "get_server_status" =>
                /\ result'.ret = STOPPED <=> o \notin DOMAIN servers
                /\ o \in DOMAIN servers => result'.ret = infos[servers[o]].status
          /\ result'.op = "get_server_info" =>
                result'.info = IF o \in DOMAIN servers THEN servers[o] ELSE None
          /\ result'.op = "is_running" =>
                (result'.ret = "True" <=>
                    (o \in DOMAIN servers /\ infos[servers[o]].status = RUNNING))]_vars

\* get_server_status returned STOPPED for an owner without a record while
\* another owner has a record and a lease.
C29_Witness ==
    /\ result.op = "get_server_status"
    /\ result.ret = STOPPED
    /\ result.project_id \notin DOMAIN servers
    /\ servers # << >>
    /\ port_allocations # << >>

\* get_server_status returned the status of a record that is being stopped.
C29_RecordWitness ==
    /\ result.op = "get_server_status"
    /\ result.ret = STOPPING
    /\ result.project_id \in DOMAIN servers
    /\ infos[servers[result.project_id]].status = STOPPING

\* ---------------------------------------------------------------------
\* C30: every child process that is alive is the process of the record that
\* servers holds for its owner.
Held(process) ==
    /\ procs[process].owner \in DOMAIN servers
    /\ infos[servers[procs[process].owner]].process = process

C30_NoOrphanProcess ==
    \A process \in DOMAIN procs : procs[process].alive => Held(process)

\* ---------------------------------------------------------------------
\* C31: a step of a start_server or stop_server call for one owner leaves
\* every lease of another owner in place, and no two owners have STARTING or
\* RUNNING records on one port.
\* The owner whose start_server or stop_server call takes the step, None when
\* the step is not one of such a call (calls are made one after the other).
Actor ==
    IF tasks[1].op \in {"start", "stop"} THEN tasks[1].project_id
    ELSE IF tasks'[1].op \in {"start", "stop"} THEN tasks'[1].project_id
    ELSE IF result'.op \in {"start", "stop"} /\ result'.sync THEN result'.project_id
    ELSE None

Serving(o) ==
    /\ o \in DOMAIN servers
    /\ infos[servers[o]].status \in {STARTING, RUNNING}

C31_LeasesOfOthersAreKept ==
    [][/\ \A port \in DOMAIN port_allocations :
            (Actor # None /\ port_allocations[port] # Actor) =>
                /\ port \in DOMAIN port_allocations'
                /\ port_allocations'[port] = port_allocations[port]
       /\ \A o, other \in Owners :
            (o # other /\ Serving(o)' /\ Serving(other)') =>
                infos'[servers'[o]].port # infos'[servers'[other]].port]_vars

\* ---------------------------------------------------------------------
\* C32: the port of every STARTING or RUNNING record in servers is leased to
\* the record's owner.
C32_ServingRecordHoldsItsLease ==
    \A o \in DOMAIN servers :
        Serving(o) =>
            /\ infos[servers[o]].port \in DOMAIN port_allocations
            /\ port_allocations[infos[servers[o]].port] = o

\* ---------------------------------------------------------------------
\* C33: when a stop_server call that waited for the process to exit goes on
\* and servers holds another record for the owner than the one the call
\* marked STOPPING, the call leaves that record in servers and leaves the
\* lease of its port.
Replaced(tk) ==
    /\ tk.op = "stop"
    /\ tk.pc \in {"wait_term", "wait_kill"}
    /\ tk.project_id \in DOMAIN servers
    /\ servers[tk.project_id] # tk.info

C33_StopDeletesOnlyItsOwnRecord ==
    [][\A t \in Tasks :
          (Replaced(tasks[t]) /\ tasks'[t] # tasks[t] /\ tasks'[t].pc = "done") =>
              LET project_id == tasks[t].project_id
                  port == infos[servers[project_id]].port
              IN  /\ project_id \in DOMAIN servers'
                  /\ servers'[project_id] = servers[project_id]
                  /\ port \in DOMAIN port_allocations =>
                        /\ port \in DOMAIN port_allocations'
                        /\ port_allocations'[port] = port_allocations[port]]_vars

\* ---------------------------------------------------------------------
\* C34: with a subscriber registering or unregistering while a
\* broadcast_to_project call is suspended in a send_json, every call returns
\* normally, no error message is broadcast and the read loop goes on.
C34_BroadcastSurvivesSubscriberChange ==
    /\ \A k \in DOMAIN delivered :
          /\ delivered[k].ret = "return"
          /\ delivered[k].call.message.type # "error"
    /\ emit["stdout"].pc # "done"
    /\ \A ws \in Sockets : \A i \in DOMAIN inbox[ws] :
          ~(inbox[ws][i].type = "error" /\ inbox[ws][i].n > 0)

\* C35: for every spawned process at most one pump is ever started, also when
\* two start requests for one project overlap and the second one gets the
\* record that is already Running back from start_server.
C35_OnePumpPerProcess ==
    \A p \in 1..Len(procs) :
        Cardinality({i \in DOMAIN stream_tasks : stream_tasks[i] = p}) <= 1

\* C36: after stop_server(owner) has returned True no lease of
\* port_allocations names that owner, whatever allocate_port and start_server
\* calls came before; and every lease names an owner that has a record in
\* servers or a start_server call in progress.
C36_NoLeakedLease ==
    /\ (result.op = "stop" /\ result.ret = "True") =>
           \A p \in DOMAIN port_allocations : port_allocations[p] # result.project_id
    /\ \A p \in DOMAIN port_allocations :
           \/ port_allocations[p] \in DOMAIN servers
           \/ \E t \in Tasks : /\ tasks[t].op = "start"
                                /\ tasks[t].project_id = port_allocations[p]

\* C37: a record stored in servers with status Running has a process handle
\* and a pid, one with status Starting has neither, and no record stored in
\* servers has status Stopped.
C37_StoredRecordsAreWellFormed ==
    \A o \in DOMAIN servers :
        LET server_info == infos[servers[o]] IN
        /\ server_info.status = RUNNING =>
               server_info.process # None /\ server_info.pid # None
        /\ server_info.status = STARTING =>
               server_info.process = None /\ server_info.pid = None
        /\ server_info.status # STOPPED

\* C37: a Running record and a Starting record are stored while a record
\* that stop_server marked Stopped exists outside servers.
C37_StoredAndStoppedRecords ==
    /\ \E o \in DOMAIN servers : infos[servers[o]].status = RUNNING
    /\ \E o \in DOMAIN servers : infos[servers[o]].status = STARTING
    /\ \E i \in 1..Len(infos) : infos[i].status = STOPPED

====
